---- MODULE Spec2Model ----
(***************************************************************************)
(* HolisticConnect: the repository layer (users, practitioners,           *)
(* appointments) over the hosted document store, and the hooks that drive  *)
(* it (sign-up, sign-in, appointment lifecycle, realtime subscription).    *)
(*                                                                         *)
(* Every repository method is an async function: it is modelled as a call  *)
(* record whose pc names the SDK request it is awaiting, so that other     *)
(* calls and handlers interleave between two awaits exactly as the event   *)
(* loop allows.  Every SDK request may be rejected by the backend          *)
(* (offline / unavailable).                                                *)
(***************************************************************************)
EXTENDS Integers, Sequences, FiniteSets, TLC

\* ------------------------------------------------------------------ bounds
\* Number of writes the store's server clock stamps in one behaviour.
MaxClock == 2
\* Number of appointment document ids addDoc can generate.
MaxAppts == 3
\* Number of times a sign-up or sign-in form is submitted.
MaxAttempts == 2
\* Number of auth state changes the AuthProvider is notified of.
MaxAuthEvents == 3
\* Number of sign-ups, Google sign-ins and auth events in one behaviour of the
\* writers of User.role.
MaxRoleOps == 2
\* Number of hook actions invoked in one behaviour of the six action hooks.
MaxInvocations == 1
\* Number of document writes in one behaviour of sign-up and Google sign-in
\* running together.
MaxWrites == 3
\* Number of subscriptions one behaviour of useAppointments registers.
MaxListeners == 2

\* --------------------------------------------------------- program constants
\* listAppointments / subscribeToAppointments: limit(100) when none is given.
DefaultLimit == 100
\* createPractitionerProfile defaults.
DefaultInitialConsultation == 10000
DefaultFollowUpSession == 8000
DefaultSessionDuration == 60
\* serverTimestamp(): a placeholder the store replaces by its clock on write.
ServerTS == -1

VARIABLES
    users,          \* collection users:         uid -> document | Absent
    practitioners,  \* collection practitioners: uid -> document | Absent
    appointments,   \* collection appointments:  id  -> document | Absent
    clock,          \* the store's server clock (last stamped time)
    calls,          \* repository calls in flight: call id -> call record
    invoked,        \* history: <<op, key>> of the repository methods the hooks invoked
    authUsers,      \* identity provider: the uids that have an account
    useSignUp,      \* useSignUp: state of the hook and of its signUp call
    useSignIn,      \* useSignIn: state of the hook and of its signIn call
    toasts,         \* toast.success / warning / error calls: <<attempt, kind, message>>
    pushes,         \* router.push calls: <<attempt, destination>>
    sub,            \* subscribeToAppointments: the listener and its queued snapshots
    callbacks,      \* the rows each invocation of the subscriber's callback carried
    authContext,    \* AuthProvider: user, role, loading
    page,           \* the route shown and the effects its components have run
    nav,            \* the last router call a page component made
    useSignInWithGoogle,    \* hook state: pc, loading, error
    useSignOut,             \* hook state: pc, loading, error
    useCreateAppointment,   \* hook state: pc, loading, error
    useUpdateAppointment,   \* hook state: pc, loading, error
    usePractitioner,        \* hook state: the practitioner document the page loaded
    useAppointments,        \* hook state: mounted, options, appointments, loading, error
    listeners               \* the onSnapshot listeners useAppointments registered

stores == <<users, practitioners, appointments, clock>>
hooks == <<authUsers, useSignUp, useSignIn, toasts, pushes>>
subs == <<sub, callbacks>>
\* What a repository step outside the appointments collection leaves alone.
\* The AuthProvider, the pages, and the remaining action hooks.
ui == <<authContext, page, nav, useSignInWithGoogle, useSignOut,
        useCreateAppointment, useUpdateAppointment, usePractitioner>>
\* useAppointments and its listeners.
rt == <<useAppointments, listeners>>
env == <<invoked, hooks, subs, ui, rt>>

\* ------------------------------------------------------------------ values
Absent == [exists |-> FALSE]
Null == "null"
NoInput == [none |-> TRUE]

Uids == {"u1", "u2"}
Roles == {"client", "practitioner"}
ApptIds == 1..MaxAppts
\* Start times a booking can ask for (endTime is one slot later).
Times == {1, 2}
Actors == {"client", "practitioner"}
AppointmentStatus == {"pending", "confirmed", "cancelled", "completed", "no-show"}

Email(uid) == uid \o "@x.com"

\* Error messages of the repositories and of the SDK.
Unavailable == "unavailable"
SdkNotFound == "not-found"
UserExistsErr(uid) == "User profile already exists for UID: " \o uid
UserNotFoundErr(uid) == "User profile not found for UID: " \o uid
PractitionerExistsErr(uid) == "Practitioner profile already exists for UID: " \o uid
PractitionerNotFoundErr(uid) == "Practitioner profile not found for UID: " \o uid
AppointmentNotFoundErr == "Appointment not found"

\* `x ?? d` on an optional input field.
OrDefault(input, f, d) == IF f \in DOMAIN input THEN input[f] ELSE d

\* Mutant: an update leaves the document as it was.
Merge_keepsDocument(doc, upd) == doc

\* Object spread / updateDoc: the fields of upd replace those of doc.
Merge(doc, upd) ==
    [f \in (DOMAIN doc) \cup (DOMAIN upd) |->
        IF f \in DOMAIN upd THEN upd[f] ELSE doc[f]]

TimestampFields == {"createdAt", "updatedAt", "cancelledAt"}

\* The store replaces every serverTimestamp() placeholder by its clock.
ResolveTimestamps(data, now) ==
    [f \in DOMAIN data |->
        IF f \in TimestampFields
        THEN (IF data[f] = ServerTS THEN now ELSE data[f])
        ELSE data[f]]

\* ------------------------------------------------------------ call records
IdleCall ==
    [op |-> "none", pc |-> "idle", key |-> Null, input |-> NoInput,
     ret |-> Absent, rows |-> <<>>, err |-> Null, wrote |-> FALSE,
     cursor |-> Absent, via |-> "none", method |-> "none", before |-> Absent]

Settled(c) == calls[c].pc \in {"idle", "resolved", "rejected"}

\* The first SDK request each repository method awaits.
FirstPc(op, input) ==
    CASE op = "createAppointment" -> "addDoc"
      [] op = "listAppointments" ->
            IF "startAfterDocId" \in DOMAIN input THEN "getDoc" ELSE "getDocs"
      [] OTHER -> "getDoc"

UserOps == {"createUserProfile", "getUser", "updateUser", "userExists"}
PractitionerOps == {"createPractitionerProfile", "getPractitioner", "updatePractitioner"}
GetOps == {"getUser", "getPractitioner", "getAppointment"}
UpdateOps == {"updateUser", "updatePractitioner", "updateAppointment"}

\* The stored document a keyed repository method addresses.
DocAt(op, key) ==
    IF op \in UserOps THEN users[key]
    ELSE IF op \in PractitionerOps THEN practitioners[key]
    ELSE IF op \in {"getAppointment", "updateAppointment"} THEN appointments[key]
    ELSE Absent

\* before: the addressed document as it was when the method was called.
StartCall(op, key, input, via) ==
    [IdleCall EXCEPT !.op = op, !.pc = FirstPc(op, input), !.key = key,
                     !.input = input, !.via = via, !.method = op,
                     !.before = DocAt(op, key)]

Resolve(c, doc) ==
    calls' = [calls EXCEPT ![c].pc = "resolved", ![c].ret = doc]

Reject(c, e) ==
    calls' = [calls EXCEPT ![c].pc = "rejected", ![c].err = e]

Goto(c, pc) ==
    calls' = [calls EXCEPT ![c].pc = pc]

At(c, op, pc) == calls[c].op = op /\ calls[c].pc = pc

\* ---------------------------------------------------------- UserRepository
userData(input) ==
    [uid |-> input.uid,
     email |-> input.email,
     role |-> input.role,
     displayName |-> OrDefault(input, "displayName", Null),
     photoURL |-> OrDefault(input, "photoURL", Null),
     createdAt |-> ServerTS,
     updatedAt |-> ServerTS,
     emailVerified |-> OrDefault(input, "emailVerified", FALSE),
     phoneNumber |-> OrDefault(input, "phoneNumber", Null),
     bio |-> OrDefault(input, "bio", Null)]

\* Mutant: the existence check is missing, so create overwrites.
createUserProfileGuard_skipped(uid) == FALSE

\* if (userDoc.exists()) throw ...
createUserProfileGuard(uid) == users[uid] # Absent

createUserProfile(c) ==
    LET uid == calls[c].key IN
    \/ /\ At(c, "createUserProfile", "getDoc")
       /\ \E ok \in BOOLEAN :
            IF ~ok THEN Reject(c, Unavailable)
            ELSE IF createUserProfileGuard(uid) THEN Reject(c, UserExistsErr(uid))
            ELSE Goto(c, "setDoc")
       /\ UNCHANGED <<stores, env>>
    \/ /\ At(c, "createUserProfile", "setDoc")
       /\ \E ok \in BOOLEAN :
            IF ~ok
            THEN Reject(c, Unavailable) /\ UNCHANGED stores
            ELSE /\ clock < MaxClock
                 /\ clock' = clock + 1
                 /\ users' = [users EXCEPT
                        ![uid] = ResolveTimestamps(userData(calls[c].input), clock + 1)]
                 /\ calls' = [calls EXCEPT ![c].pc = "refetch", ![c].wrote = TRUE]
                 /\ UNCHANGED <<practitioners, appointments, rt>>
       /\ UNCHANGED env
    \/ /\ At(c, "createUserProfile", "refetch")
       /\ \E ok \in BOOLEAN :
            IF ~ok THEN Reject(c, Unavailable)
            ELSE IF users[uid] = Absent THEN Reject(c, "Failed to create user profile")
            ELSE Resolve(c, users[uid])
       /\ UNCHANGED <<stores, env>>

\* Mutant: a missing document is treated as an error.
getUser_throwsOnMissing(c) ==
    /\ At(c, "getUser", "getDoc")
    /\ \E ok \in BOOLEAN :
         IF ~ok THEN Reject(c, Unavailable)
         ELSE IF users[calls[c].key] = Absent
         THEN Reject(c, UserNotFoundErr(calls[c].key))
         ELSE Resolve(c, users[calls[c].key])
    /\ UNCHANGED <<stores, env>>

getUser(c) ==
    /\ At(c, "getUser", "getDoc")
    /\ \E ok \in BOOLEAN :
         IF ~ok THEN Reject(c, Unavailable)
         ELSE Resolve(c, users[calls[c].key])
    /\ UNCHANGED <<stores, env>>

\* if (!userDoc.exists()) throw ...
updateUserGuard(uid) == users[uid] = Absent

updateUser(c) ==
    LET uid == calls[c].key IN
    \/ /\ At(c, "updateUser", "getDoc")
       /\ \E ok \in BOOLEAN :
            IF ~ok THEN Reject(c, Unavailable)
            ELSE IF updateUserGuard(uid) THEN Reject(c, UserNotFoundErr(uid))
            ELSE Goto(c, "updateDoc")
       /\ UNCHANGED <<stores, env>>
    \/ /\ At(c, "updateUser", "updateDoc")
       /\ \E ok \in BOOLEAN :
            IF ~ok THEN Reject(c, Unavailable) /\ UNCHANGED stores
            ELSE IF users[uid] = Absent
            THEN Reject(c, SdkNotFound) /\ UNCHANGED stores
            ELSE /\ clock < MaxClock
                 /\ clock' = clock + 1
                 /\ users' = [users EXCEPT
                        ![uid] = ResolveTimestamps(
                            Merge(users[uid],
                                  Merge(calls[c].input, [updatedAt |-> ServerTS])),
                            clock + 1)]
                 /\ calls' = [calls EXCEPT ![c].pc = "refetch", ![c].wrote = TRUE]
                 /\ UNCHANGED <<practitioners, appointments, rt>>
       /\ UNCHANGED env
    \/ /\ At(c, "updateUser", "refetch")
       /\ \E ok \in BOOLEAN :
            IF ~ok THEN Reject(c, Unavailable)
            ELSE IF users[uid] = Absent THEN Reject(c, "Failed to update user profile")
            ELSE Resolve(c, users[uid])
       /\ UNCHANGED <<stores, env>>

\* --------------------------------------------------- PractitionerRepository
defaultPricing ==
    [initialConsultation |-> DefaultInitialConsultation,
     followUpSession |-> DefaultFollowUpSession,
     currency |-> "USD"]

WeekDays == {"monday", "tuesday", "wednesday", "thursday", "friday"}
AllDays == WeekDays \cup {"saturday", "sunday"}

defaultAvailabilityRules ==
    [timezone |-> "America/New_York",
     workingHours |->
        [d \in AllDays |-> [start |-> "09:00", end |-> "17:00", enabled |-> d \in WeekDays]]]

practitionerData(input) ==
    [uid |-> input.uid,
     email |-> input.email,
     displayName |-> input.displayName,
     photoURL |-> OrDefault(input, "photoURL", Null),
     bio |-> OrDefault(input, "bio", "No bio available."),
     specialties |-> OrDefault(input, "specialties", <<>>),
     pricing |-> OrDefault(input, "pricing", defaultPricing),
     availabilityRules |-> OrDefault(input, "availabilityRules", defaultAvailabilityRules),
     sessionDuration |-> OrDefault(input, "sessionDuration", DefaultSessionDuration),
     createdAt |-> ServerTS,
     updatedAt |-> ServerTS,
     isActive |-> TRUE]

\* if (practitionerDoc.exists()) throw ...
createPractitionerProfileGuard(uid) == practitioners[uid] # Absent

createPractitionerProfile(c) ==
    LET uid == calls[c].key IN
    \/ /\ At(c, "createPractitionerProfile", "getDoc")
       /\ \E ok \in BOOLEAN :
            IF ~ok THEN Reject(c, Unavailable)
            ELSE IF createPractitionerProfileGuard(uid)
            THEN Reject(c, PractitionerExistsErr(uid))
            ELSE Goto(c, "setDoc")
       /\ UNCHANGED <<stores, env>>
    \/ /\ At(c, "createPractitionerProfile", "setDoc")
       /\ \E ok \in BOOLEAN :
            IF ~ok
            THEN Reject(c, Unavailable) /\ UNCHANGED stores
            ELSE /\ clock < MaxClock
                 /\ clock' = clock + 1
                 /\ practitioners' = [practitioners EXCEPT
                        ![uid] = ResolveTimestamps(practitionerData(calls[c].input),
                                                   clock + 1)]
                 /\ calls' = [calls EXCEPT ![c].pc = "refetch", ![c].wrote = TRUE]
                 /\ UNCHANGED <<users, appointments, rt>>
       /\ UNCHANGED env
    \/ /\ At(c, "createPractitionerProfile", "refetch")
       /\ \E ok \in BOOLEAN :
            IF ~ok THEN Reject(c, Unavailable)
            ELSE IF practitioners[uid] = Absent
            THEN Reject(c, "Failed to create practitioner profile")
            ELSE Resolve(c, practitioners[uid])
       /\ UNCHANGED <<stores, env>>

getPractitioner(c) ==
    /\ At(c, "getPractitioner", "getDoc")
    /\ \E ok \in BOOLEAN :
         IF ~ok THEN Reject(c, Unavailable)
         ELSE Resolve(c, practitioners[calls[c].key])
    /\ UNCHANGED <<stores, env>>

\* if (!practitionerDoc.exists()) throw ...
updatePractitionerGuard(uid) == practitioners[uid] = Absent

updatePractitioner(c) ==
    LET uid == calls[c].key IN
    \/ /\ At(c, "updatePractitioner", "getDoc")
       /\ \E ok \in BOOLEAN :
            IF ~ok THEN Reject(c, Unavailable)
            ELSE IF updatePractitionerGuard(uid)
            THEN Reject(c, PractitionerNotFoundErr(uid))
            ELSE Goto(c, "updateDoc")
       /\ UNCHANGED <<stores, env>>
    \/ /\ At(c, "updatePractitioner", "updateDoc")
       /\ \E ok \in BOOLEAN :
            IF ~ok THEN Reject(c, Unavailable) /\ UNCHANGED stores
            ELSE IF practitioners[uid] = Absent
            THEN Reject(c, SdkNotFound) /\ UNCHANGED stores
            ELSE /\ clock < MaxClock
                 /\ clock' = clock + 1
                 /\ practitioners' = [practitioners EXCEPT
                        ![uid] = ResolveTimestamps(
                            Merge(practitioners[uid],
                                  Merge(calls[c].input, [updatedAt |-> ServerTS])),
                            clock + 1)]
                 /\ calls' = [calls EXCEPT ![c].pc = "refetch", ![c].wrote = TRUE]
                 /\ UNCHANGED <<users, appointments, rt>>
       /\ UNCHANGED env
    \/ /\ At(c, "updatePractitioner", "refetch")
       /\ \E ok \in BOOLEAN :
            IF ~ok THEN Reject(c, Unavailable)
            ELSE IF practitioners[uid] = Absent
            THEN Reject(c, "Failed to update practitioner profile")
            ELSE Resolve(c, practitioners[uid])
       /\ UNCHANGED <<stores, env>>

\* ------------------------------------------------------------ the query
\* { id: doc.id, ...doc.data() }
WithId(id, data) == Merge([id |-> id], data)

\* if (options?.f): the option is given and truthy.
HasStr(o, f) == f \in DOMAIN o /\ o[f] # ""
HasNum(o, f) == f \in DOMAIN o /\ o[f] # 0

\* The where() clauses listAppointments and subscribeToAppointments add.
Matches(d, o) ==
    /\ HasStr(o, "practitionerId") => d.practitionerId = o.practitionerId
    /\ HasStr(o, "clientId") => d.clientId = o.clientId
    /\ HasStr(o, "status") => d.status = o.status
    /\ HasNum(o, "startAfter") => d.startTime >= o.startAfter
    /\ HasNum(o, "startBefore") => d.startTime <= o.startBefore

\* orderBy('startTime', 'asc'); the store breaks ties by document id.
Before(store, a, b) ==
    \/ store[a].startTime < store[b].startTime
    \/ store[a].startTime = store[b].startTime /\ a < b

\* The ids in query order: each at the position given by how many come before it.
OrderByStartTime(store, ids) ==
    LET rank == [a \in ids |-> Cardinality({b \in ids : Before(store, b, a)})]
    IN [i \in 1..Cardinality(ids) |-> CHOOSE a \in ids : rank[a] = i - 1]

\* limit(n)
Take(seq, n) == IF Len(seq) <= n THEN seq ELSE SubSeq(seq, 1, n)

\* Mutant: the requested limit is ignored.
QueryLimit_ignoresOption(o) == DefaultLimit

\* limit(options.limit), or limit(100) when none is given.
QueryLimit(o) == IF HasNum(o, "limit") THEN o.limit ELSE DefaultLimit

\* startAfter(cursorDocument): the documents ordered after the cursor's
\* position (its startTime at the time it was read, then its id).
AfterCursor(store, ordered, cur) ==
    IF cur = Absent THEN ordered
    ELSE SelectSeq(ordered, LAMBDA a :
            \/ store[a].startTime > cur.startTime
            \/ store[a].startTime = cur.startTime /\ a > cur.id)

\* getDocs / onSnapshot: the QuerySnapshot's docs, each with its id and data().
QuerySnapshot(store, o, cur) ==
    LET ids == {a \in DOMAIN store : store[a] # Absent /\ Matches(store[a], o)}
        picked == Take(AfterCursor(store, OrderByStartTime(store, ids), cur),
                       QueryLimit(o))
    IN [i \in 1..Len(picked) |-> [id |-> picked[i], data |-> store[picked[i]]]]

\* snapshot.docs.map((doc) => ({ id: doc.id, ...doc.data() }))
mapDocs(snapshot) ==
    [i \in 1..Len(snapshot) |-> WithId(snapshot[i].id, snapshot[i].data)]

\* The rows a query delivers.
RunQuery(store, o, cur) == mapDocs(QuerySnapshot(store, o, cur))

\* onSnapshot: while the listener is active the store queues a snapshot of the
\* query's documents whenever a write changes what the query delivers.
\* subscribeToAppointments builds its query without a cursor.
Notified(store, store2) ==
    IF /\ sub.status = "active"
       /\ QuerySnapshot(store2, sub.options, Absent)
            # QuerySnapshot(store, sub.options, Absent)
    THEN [sub EXCEPT !.pending = Append(@, QuerySnapshot(store2, sub.options, Absent))]
    ELSE sub

\* ---------------------------------------------------- AppointmentRepository
\* Mutant: a new appointment starts out confirmed.
appointmentData_confirmed(input) ==
    [clientId |-> input.clientId,
     practitionerId |-> input.practitionerId,
     startTime |-> input.startTime,
     endTime |-> input.endTime,
     status |-> "confirmed",
     createdAt |-> ServerTS,
     updatedAt |-> ServerTS,
     notes |-> OrDefault(input, "notes", Null),
     reminderSent |-> FALSE,
     intakeFormCompleted |-> FALSE]

appointmentData(input) ==
    [clientId |-> input.clientId,
     practitionerId |-> input.practitionerId,
     startTime |-> input.startTime,
     endTime |-> input.endTime,
     status |-> "pending",
     createdAt |-> ServerTS,
     updatedAt |-> ServerTS,
     notes |-> OrDefault(input, "notes", Null),
     reminderSent |-> FALSE,
     intakeFormCompleted |-> FALSE]

createAppointment(c) ==
    \/ /\ At(c, "createAppointment", "addDoc")
       /\ \E ok \in BOOLEAN :
            IF ~ok
            THEN Reject(c, Unavailable) /\ UNCHANGED stores
            ELSE /\ clock < MaxClock
                 /\ clock' = clock + 1
                 /\ \E id \in ApptIds :
                      /\ appointments[id] = Absent
                      /\ appointments' = [appointments EXCEPT
                            ![id] = ResolveTimestamps(appointmentData(calls[c].input),
                                                      clock + 1)]
                      /\ calls' = [calls EXCEPT ![c].pc = "refetch", ![c].key = id,
                                                ![c].wrote = TRUE]
                 /\ UNCHANGED <<users, practitioners, rt>>
       /\ sub' = Notified(appointments, appointments')
       /\ UNCHANGED <<invoked, hooks, callbacks, ui, rt>>
    \/ /\ At(c, "createAppointment", "refetch")
       /\ \E ok \in BOOLEAN :
            IF ~ok THEN Reject(c, Unavailable)
            ELSE IF appointments[calls[c].key] = Absent
            THEN Reject(c, "Failed to create appointment")
            ELSE Resolve(c, WithId(calls[c].key, appointments[calls[c].key]))
       /\ UNCHANGED <<stores, env>>

getAppointment(c) ==
    /\ At(c, "getAppointment", "getDoc")
    /\ \E ok \in BOOLEAN :
         IF ~ok THEN Reject(c, Unavailable)
         ELSE IF appointments[calls[c].key] = Absent THEN Resolve(c, Absent)
         ELSE Resolve(c, WithId(calls[c].key, appointments[calls[c].key]))
    /\ UNCHANGED <<stores, env>>

\* Mutant: the existence check is missing.
updateAppointmentGuard_skipped(id) == FALSE

\* if (!appointmentDoc.exists()) throw ...
updateAppointmentGuard(id) == appointments[id] = Absent

updateAppointment(c) ==
    LET id == calls[c].key IN
    \/ /\ At(c, "updateAppointment", "getDoc")
       /\ \E ok \in BOOLEAN :
            IF ~ok THEN Reject(c, Unavailable)
            ELSE IF updateAppointmentGuard(id) THEN Reject(c, AppointmentNotFoundErr)
            ELSE Goto(c, "updateDoc")
       /\ UNCHANGED <<stores, env>>
    \/ /\ At(c, "updateAppointment", "updateDoc")
       /\ \E ok \in BOOLEAN :
            IF ~ok THEN Reject(c, Unavailable) /\ UNCHANGED stores
            ELSE IF appointments[id] = Absent
            THEN Reject(c, SdkNotFound) /\ UNCHANGED stores
            ELSE /\ clock < MaxClock
                 /\ clock' = clock + 1
                 /\ appointments' = [appointments EXCEPT
                        ![id] = ResolveTimestamps(
                            Merge(appointments[id],
                                  Merge(calls[c].input, [updatedAt |-> ServerTS])),
                            clock + 1)]
                 /\ calls' = [calls EXCEPT ![c].pc = "refetch", ![c].wrote = TRUE]
                 /\ UNCHANGED <<users, practitioners, rt>>
       /\ sub' = Notified(appointments, appointments')
       /\ UNCHANGED <<invoked, hooks, callbacks, ui, rt>>
    \/ /\ At(c, "updateAppointment", "refetch")
       /\ \E ok \in BOOLEAN :
            IF ~ok THEN Reject(c, Unavailable)
            ELSE IF appointments[id] = Absent
            THEN Reject(c, "Failed to update appointment")
            ELSE Resolve(c, WithId(id, appointments[id]))
       /\ UNCHANGED <<stores, env>>

\* Mutant: the actor is not recorded.
cancelInput_dropsActor(cancelledBy) ==
    [status |-> "cancelled", cancelledAt |-> ServerTS, cancelledBy |-> Null]

\* cancelAppointment(id, cancelledBy): the input it hands to updateAppointment.
cancelInput(cancelledBy) ==
    [status |-> "cancelled", cancelledAt |-> ServerTS, cancelledBy |-> cancelledBy]

listAppointments(c) ==
    LET o == calls[c].input IN
    \/ /\ At(c, "listAppointments", "getDoc")
       /\ \E ok \in BOOLEAN :
            IF ~ok THEN Reject(c, Unavailable)
            ELSE calls' = [calls EXCEPT
                    ![c].pc = "getDocs",
                    ![c].cursor = IF appointments[o.startAfterDocId] = Absent THEN Absent
                               ELSE WithId(o.startAfterDocId,
                                           appointments[o.startAfterDocId])]
       /\ UNCHANGED <<stores, env>>
    \/ /\ At(c, "listAppointments", "getDocs")
       /\ \E ok \in BOOLEAN :
            IF ~ok THEN Reject(c, Unavailable)
            ELSE calls' = [calls EXCEPT
                    ![c].pc = "resolved",
                    ![c].rows = RunQuery(appointments, o, calls[c].cursor)]
       /\ UNCHANGED <<stores, env>>

vars == <<users, practitioners, appointments, clock, calls, invoked, authUsers,
          useSignUp, useSignIn, toasts, pushes, sub, callbacks, authContext, page,
          nav, useSignInWithGoogle, useSignOut, useCreateAppointment,
          useUpdateAppointment, usePractitioner, useAppointments, listeners>>

\* ------------------------------------------------- callers of the repositories
\* The inputs the callers hand to the repository methods.
CreateUserProfileInputs ==
    {[uid |-> u, email |-> Email(u), role |-> r] : u \in Uids, r \in Roles}

UpdateUserProfileInputs == {[displayName |-> "B"]}

CreatePractitionerProfileInputs ==
    {[uid |-> u, email |-> Email(u), displayName |-> "A"] : u \in Uids}

UpdatePractitionerProfileInputs == {[isActive |-> FALSE]}

CreateAppointmentInputs ==
    {[clientId |-> "u1", practitionerId |-> pr, startTime |-> t, endTime |-> t + 1] :
        pr \in Uids, t \in Times}

UpdateAppointmentInputs == {[status |-> "confirmed"], [notes |-> "n"]}

\* The client dashboard's cancel action (handleCancelAppointment);
\* now is Timestamp.now() of the caller's clock.
dashboardCancelInput(now) ==
    [status |-> "cancelled", cancelledBy |-> "client", cancelledAt |-> now]

None == "none"
Opt(f, v) == IF v = None THEN <<>> ELSE f :> v

ListAppointmentsOptions ==
    {Opt("practitionerId", pr) @@ Opt("status", st) @@ lim @@ cur :
        pr \in Uids \cup {None},
        st \in {"pending", "cancelled", None},
        lim \in {<<>>, [limit |-> 1], [limit |-> 2]},
        cur \in {<<>>, [startAfterDocId |-> 2]}}

Call(c, op, key, input, via) ==
    /\ calls[c].pc = "idle"
    /\ calls' = [calls EXCEPT ![c] = StartCall(op, key, input, via)]
    /\ UNCHANGED <<stores, env>>

InvokeUserRepository(c) ==
    \/ \E in \in CreateUserProfileInputs :
            Call(c, "createUserProfile", in.uid, in, "caller")
    \/ \E u \in Uids : Call(c, "getUser", u, NoInput, "caller")
    \/ \E u \in Uids, in \in UpdateUserProfileInputs :
            Call(c, "updateUser", u, in, "caller")

InvokePractitionerRepository(c) ==
    \/ \E in \in CreatePractitionerProfileInputs :
            Call(c, "createPractitionerProfile", in.uid, in, "caller")
    \/ \E u \in Uids : Call(c, "getPractitioner", u, NoInput, "caller")
    \/ \E u \in Uids, in \in UpdatePractitionerProfileInputs :
            Call(c, "updatePractitioner", u, in, "caller")

\* useCreateAppointment / useUpdateAppointment: the writing callers.
InvokeAppointmentWrite(c) ==
    \/ \E in \in CreateAppointmentInputs :
            Call(c, "createAppointment", 0, in, "caller")
    \/ \E id \in ApptIds, in \in UpdateAppointmentInputs :
            Call(c, "updateAppointment", id, in, "caller")

InvokeAppointmentRepository(c) ==
    \/ InvokeAppointmentWrite(c)
    \/ \E id \in ApptIds : Call(c, "getAppointment", id, NoInput, "caller")

InvokeListAppointments(c) ==
    \E o \in ListAppointmentsOptions : Call(c, "listAppointments", 0, o, "caller")

\* AppointmentRepository.cancelAppointment: an alias of updateAppointment.
cancelAppointment(c) ==
    \E id \in ApptIds, by \in Actors :
        /\ calls[c].pc = "idle"
        /\ calls' = [calls EXCEPT ![c] = [StartCall("updateAppointment", id,
                                                    cancelInput(by), "caller")
                                          EXCEPT !.method = "cancelAppointment"]]
        /\ UNCHANGED <<stores, env>>

\* The client dashboard's cancel button, through useUpdateAppointment.
handleCancelAppointment(c) ==
    \E id \in ApptIds, now \in Times :
        /\ calls[c].pc = "idle"
        /\ calls' = [calls EXCEPT ![c] = [StartCall("updateAppointment", id,
                                                    dashboardCancelInput(now), "caller")
                                          EXCEPT !.method = "handleCancelAppointment"]]
        /\ UNCHANGED <<stores, env>>

\* The caller's await completes: it takes the settled result, and the promise is
\* dropped.
awaitSettled(c) ==
    /\ calls[c].pc \in {"resolved", "rejected"}
    /\ calls[c].via = "caller"
    /\ calls' = [calls EXCEPT ![c] = IdleCall]
    /\ UNCHANGED <<stores, env>>

\* ------------------------------------------------------------ initial stores
IdleSignUp ==
    [pc |-> "idle", n |-> 0, role |-> Null, displayName |-> Null, uid |-> Null,
     loading |-> FALSE, error |-> Null, caught |-> Absent]

IdleSignIn ==
    [pc |-> "idle", n |-> 0, redirectParam |-> Null, uid |-> Null,
     loading |-> FALSE, error |-> Null, caught |-> Absent]

NoSub == [status |-> "none", options |-> <<>>, pending |-> <<>>, fired |-> 0]

\* AuthProvider before the first auth event: useState(null), useState(true).
InitialAuthContext == [user |-> Null, role |-> Null, loading |-> TRUE, events |-> 0]

\* The home page, no effect run yet.
HomePage ==
    [path |-> <<>>, redirectTo |-> <<>>, gate |-> Absent, dash |-> Absent,
     booking |-> "none"]

\* useState(false), useState(null) of an action hook.
IdleHook == [pc |-> "idle", n |-> 0, loading |-> FALSE, error |-> Null, caught |-> Absent]

\* The appointment hooks also return the document, or null.
IdleAppointmentHook ==
    [pc |-> "idle", n |-> 0, loading |-> FALSE, error |-> Null, caught |-> Absent,
     result |-> Absent]

\* useAppointments before its component is mounted: useState([]),
\* useState(true), useState(null).  listener is the subscription the effect's
\* cleanup will cancel (0: none).
UnmountedUseAppointments ==
    [mounted |-> FALSE, realtime |-> FALSE, options |-> <<>>, appointments |-> <<>>,
     loading |-> TRUE, error |-> Null, listener |-> 0]

\* usePractitioner before its first fetch: useState(null), useState(true).
InitialUsePractitioner ==
    [pc |-> "idle", id |-> Null, practitioner |-> Absent, loading |-> TRUE, error |-> Null]

InitUi ==
    /\ authContext = InitialAuthContext
    /\ page = HomePage
    /\ nav = Absent
    /\ useSignInWithGoogle = IdleHook
    /\ useSignOut = IdleHook
    /\ useCreateAppointment = IdleAppointmentHook
    /\ useUpdateAppointment = IdleAppointmentHook
    /\ usePractitioner = InitialUsePractitioner
    /\ useAppointments = UnmountedUseAppointments
    /\ listeners = <<>>

InitEnv ==
    /\ invoked = {}
    /\ authUsers = {}
    /\ useSignUp = IdleSignUp
    /\ useSignIn = IdleSignIn
    /\ toasts = <<>>
    /\ pushes = <<>>
    /\ sub = NoSub
    /\ callbacks = <<>>
    /\ InitUi

\* Documents written before the behaviour starts carry the time 0 or 1.
SeedUser(u, r) ==
    ResolveTimestamps(userData([uid |-> u, email |-> Email(u), role |-> r]), 0)

SeedPractitioner(u) ==
    ResolveTimestamps(
        practitionerData([uid |-> u, email |-> Email(u), displayName |-> "A"]), 0)

SeedAppointment(pr, t, st) ==
    [ResolveTimestamps(appointmentData(
        [clientId |-> "u1", practitionerId |-> pr, startTime |-> t, endTime |-> t + 1]),
        0) EXCEPT !.status = st]

EmptyUsers == [u \in Uids |-> Absent]
EmptyAppointments == [a \in ApptIds |-> Absent]

\* -------------------------------------------- specification: the repositories
InitRepo ==
    /\ \/ /\ users = EmptyUsers
          /\ practitioners = EmptyUsers
          /\ appointments = EmptyAppointments
       \/ /\ users = [EmptyUsers EXCEPT !["u1"] = SeedUser("u1", "practitioner")]
          /\ practitioners = [EmptyUsers EXCEPT !["u1"] = SeedPractitioner("u1")]
          /\ appointments =
                [EmptyAppointments EXCEPT ![1] = SeedAppointment("u2", 1, "pending")]
    /\ clock = 1
    /\ calls = [c \in {1} |-> IdleCall]
    /\ InitEnv

NextRepo ==
    \/ \E c \in DOMAIN calls : InvokeUserRepository(c)
    \/ \E c \in DOMAIN calls : InvokePractitionerRepository(c)
    \/ \E c \in DOMAIN calls : InvokeAppointmentRepository(c)
    \/ \E c \in DOMAIN calls : cancelAppointment(c)
    \/ \E c \in DOMAIN calls : awaitSettled(c)
    \/ \E c \in DOMAIN calls : createUserProfile(c)
    \/ \E c \in DOMAIN calls : getUser(c)
    \/ \E c \in DOMAIN calls : updateUser(c)
    \/ \E c \in DOMAIN calls : createPractitionerProfile(c)
    \/ \E c \in DOMAIN calls : getPractitioner(c)
    \/ \E c \in DOMAIN calls : updatePractitioner(c)
    \/ \E c \in DOMAIN calls : createAppointment(c)
    \/ \E c \in DOMAIN calls : getAppointment(c)
    \/ \E c \in DOMAIN calls : updateAppointment(c)

SpecRepo == InitRepo /\ [][NextRepo]_vars

\* ------------------------------------- specification: the appointment lifecycle
InitAppt ==
    /\ users = EmptyUsers
    /\ practitioners = EmptyUsers
    /\ appointments \in
        {EmptyAppointments,
         [EmptyAppointments EXCEPT ![2] = SeedAppointment("u2", 2, "pending")],
         [EmptyAppointments EXCEPT ![2] = SeedAppointment("u2", 2, "pending"),
                                   ![1] = [SeedAppointment("u2", 2, "confirmed")
                                             EXCEPT !.updatedAt = 1]]}
    /\ clock = 1
    /\ calls = [c \in {1} |-> IdleCall]
    /\ InitEnv

NextAppt ==
    \/ \E c \in DOMAIN calls : InvokeAppointmentRepository(c)
    \/ \E c \in DOMAIN calls : InvokeListAppointments(c)
    \/ \E c \in DOMAIN calls : cancelAppointment(c)
    \/ \E c \in DOMAIN calls : handleCancelAppointment(c)
    \/ \E c \in DOMAIN calls : awaitSettled(c)
    \/ \E c \in DOMAIN calls : createAppointment(c)
    \/ \E c \in DOMAIN calls : getAppointment(c)
    \/ \E c \in DOMAIN calls : updateAppointment(c)
    \/ \E c \in DOMAIN calls : listAppointments(c)

SpecAppt == InitAppt /\ [][NextAppt]_vars

\* ------------------------------------------------------------------ useSignUp
\* What the identity provider rejects with: { code, message }.
AuthError(code) == [code |-> code, message |-> "Firebase: Error (" \o code \o ")."]

SignUpErrors ==
    {AuthError("auth/email-already-in-use"), AuthError("auth/invalid-email"),
     AuthError("auth/weak-password"), AuthError("auth/network-request-failed"),
     AuthError("auth/internal-error"), [code |-> Null, message |-> Null]}

ProfileSetupFailed ==
    "Account created, but profile setup failed. Please complete your profile later."
PractitionerSetupFailed ==
    "Account created, but practitioner profile setup failed. Please complete your profile later."

\* The catch block of signUp: the message shown for a rejected sign-up.
signUpErrorMessage(err) ==
    CASE err.code = "auth/email-already-in-use" ->
            "An account with this email already exists."
      [] err.code = "auth/invalid-email" -> "Invalid email address."
      [] err.code = "auth/weak-password" ->
            "Password is too weak. Please use a stronger password."
      [] err.code = "auth/network-request-failed" ->
            "Network error. Please check your connection."
      [] OTHER -> IF err.message # Null THEN err.message
                  ELSE "Failed to create account. Please try again."

\* Mutant: every sign-up gets a practitioner profile.
isPractitionerSignUp_always(role) == TRUE

\* Mutant: no sign-up gets a practitioner profile.
isPractitionerSignUp_never(role) == FALSE

\* if (role === 'practitioner')
isPractitionerSignUp(role) == role = "practitioner"

\* The hook calls a repository method and awaits it.
HookCall(op, key, input, via) ==
    /\ Settled(1)
    /\ calls' = [calls EXCEPT ![1] = StartCall(op, key, input, via)]
    /\ invoked' = invoked \cup {<<op, key>>}

HookAwaits(via) == calls[1].via = via /\ calls[1].pc \in {"resolved", "rejected"}

Toast(n, kind, message) == toasts' = Append(toasts, <<n, kind, message>>)

signUpCreateUserProfile(uid) ==
    HookCall("createUserProfile", uid,
             [uid |-> uid, email |-> Email(uid), role |-> useSignUp.role,
              displayName |-> IF useSignUp.displayName # "" THEN useSignUp.displayName
                              ELSE Null,
              photoURL |-> Null, emailVerified |-> FALSE],
             "useSignUp")

\* user.email!.split('@')[0]
LocalPart(email) == CHOOSE u \in Uids : Email(u) = email

signUpCreatePractitionerProfile(uid) ==
    HookCall("createPractitionerProfile", uid,
             [uid |-> uid, email |-> Email(uid),
              displayName |-> IF useSignUp.displayName # "" THEN useSignUp.displayName
                              ELSE LocalPart(Email(uid)),
              photoURL |-> Null],
             "useSignUp")

\* catch (err) { ... setError; toast.error } finally { setLoading(false) }
signUpCatch(err) ==
    /\ useSignUp' = [useSignUp EXCEPT !.pc = "done", !.caught = err,
                                      !.error = signUpErrorMessage(err),
                                      !.loading = FALSE]
    /\ Toast(useSignUp.n, "error", signUpErrorMessage(err))

\* signUp(email, password, displayName, role) up to its first await.
signUp ==
    /\ useSignUp.pc \in {"idle", "done"}
    /\ useSignUp.n < MaxAttempts
    /\ \E role \in Roles, displayName \in {"", "A"} :
        useSignUp' = [IdleSignUp EXCEPT !.pc = "createUserWithEmailAndPassword",
                                        !.n = useSignUp.n + 1, !.role = role,
                                        !.displayName = displayName,
                                        !.loading = TRUE, !.error = Null]
    /\ UNCHANGED <<stores, calls, invoked, authUsers, useSignIn, toasts, pushes, subs, ui, rt>>

\* await createUserWithEmailAndPassword(auth, email, password)
signUp_createUserWithEmailAndPassword ==
    /\ useSignUp.pc = "createUserWithEmailAndPassword"
    /\ \/ \E uid \in Uids \ authUsers :
            /\ authUsers' = authUsers \cup {uid}
            /\ IF useSignUp.displayName # ""
               THEN /\ useSignUp' = [useSignUp EXCEPT !.uid = uid, !.pc = "updateProfile"]
                    /\ UNCHANGED <<calls, invoked, rt>>
               ELSE /\ useSignUp' = [useSignUp EXCEPT !.uid = uid,
                                                      !.pc = "createUserProfile"]
                    /\ signUpCreateUserProfile(uid)
            /\ UNCHANGED toasts
       \/ \E err \in SignUpErrors :
            /\ signUpCatch(err)
            /\ UNCHANGED <<authUsers, calls, invoked, rt>>
    /\ UNCHANGED <<stores, useSignIn, pushes, subs, ui, rt>>

\* await updateProfile(user, { displayName })
signUp_updateProfile ==
    /\ useSignUp.pc = "updateProfile"
    /\ \/ /\ useSignUp' = [useSignUp EXCEPT !.pc = "createUserProfile"]
          /\ signUpCreateUserProfile(useSignUp.uid)
          /\ UNCHANGED toasts
       \/ /\ signUpCatch(AuthError("auth/network-request-failed"))
          /\ UNCHANGED <<calls, invoked, rt>>
    /\ UNCHANGED <<stores, authUsers, useSignIn, pushes, subs, ui, rt>>

\* Mutant: a rejected createUserProfile is not caught on its own; it reaches
\* the outer catch of signUp.
signUp_createUserProfile_rethrows ==
    /\ useSignUp.pc = "createUserProfile"
    /\ HookAwaits("useSignUp")
    /\ IF calls[1].pc = "rejected"
       THEN /\ signUpCatch([code |-> Null, message |-> calls[1].err])
            /\ calls' = [calls EXCEPT ![1] = IdleCall]
            /\ UNCHANGED invoked
       ELSE IF isPractitionerSignUp(useSignUp.role)
       THEN /\ useSignUp' = [useSignUp EXCEPT !.pc = "createPractitionerProfile"]
            /\ signUpCreatePractitionerProfile(useSignUp.uid)
            /\ UNCHANGED toasts
       ELSE /\ useSignUp' = [useSignUp EXCEPT !.pc = "sendEmailVerification"]
            /\ calls' = [calls EXCEPT ![1] = IdleCall]
            /\ UNCHANGED <<invoked, toasts, rt>>
    /\ UNCHANGED <<stores, authUsers, useSignIn, pushes, subs, ui, rt>>

\* await userRepository.createUserProfile(...) settles.
signUp_createUserProfile ==
    /\ useSignUp.pc = "createUserProfile"
    /\ HookAwaits("useSignUp")
    /\ IF calls[1].pc = "rejected"
       THEN /\ Toast(useSignUp.n, "warning", ProfileSetupFailed)
            /\ useSignUp' = [useSignUp EXCEPT !.pc = "sendEmailVerification"]
            /\ calls' = [calls EXCEPT ![1] = IdleCall]
            /\ UNCHANGED invoked
       ELSE IF isPractitionerSignUp(useSignUp.role)
       THEN /\ useSignUp' = [useSignUp EXCEPT !.pc = "createPractitionerProfile"]
            /\ signUpCreatePractitionerProfile(useSignUp.uid)
            /\ UNCHANGED toasts
       ELSE /\ useSignUp' = [useSignUp EXCEPT !.pc = "sendEmailVerification"]
            /\ calls' = [calls EXCEPT ![1] = IdleCall]
            /\ UNCHANGED <<invoked, toasts, rt>>
    /\ UNCHANGED <<stores, authUsers, useSignIn, pushes, subs, ui, rt>>

\* await practitionerRepository.createPractitionerProfile(...) settles.
signUp_createPractitionerProfile ==
    /\ useSignUp.pc = "createPractitionerProfile"
    /\ HookAwaits("useSignUp")
    /\ IF calls[1].pc = "rejected"
       THEN Toast(useSignUp.n, "warning", PractitionerSetupFailed)
       ELSE UNCHANGED toasts
    /\ useSignUp' = [useSignUp EXCEPT !.pc = "sendEmailVerification"]
    /\ calls' = [calls EXCEPT ![1] = IdleCall]
    /\ UNCHANGED <<stores, invoked, authUsers, useSignIn, pushes, subs, ui, rt>>

\* await sendEmailVerification(user); router.push('/dashboard'); finally.
signUp_sendEmailVerification ==
    /\ useSignUp.pc = "sendEmailVerification"
    /\ \E sent \in BOOLEAN :
        Toast(useSignUp.n, "success",
              IF sent
              THEN "Account created! Please check your email to verify your account."
              ELSE "Account created successfully!")
    /\ pushes' = Append(pushes, <<useSignUp.n, "/dashboard">>)
    /\ useSignUp' = [useSignUp EXCEPT !.pc = "done", !.loading = FALSE]
    /\ UNCHANGED <<stores, calls, invoked, authUsers, useSignIn, subs, ui, rt>>

\* ------------------------------------------------ specification: the sign-up
InitSignUp ==
    /\ users = EmptyUsers
    /\ practitioners = EmptyUsers
    /\ appointments = EmptyAppointments
    /\ clock = 0
    /\ calls = [c \in {1} |-> IdleCall]
    /\ InitEnv

NextSignUp ==
    \/ signUp
    \/ signUp_createUserWithEmailAndPassword
    \/ signUp_updateProfile
    \/ signUp_createUserProfile
    \/ signUp_createPractitionerProfile
    \/ signUp_sendEmailVerification
    \/ \E c \in DOMAIN calls : createUserProfile(c)
    \/ \E c \in DOMAIN calls : createPractitionerProfile(c)

SpecSignUp == InitSignUp /\ [][NextSignUp]_vars

\* ------------------------------------------------------------------ useSignIn
SignInErrors ==
    {AuthError("auth/invalid-credential"), AuthError("auth/user-not-found"),
     AuthError("auth/wrong-password"), AuthError("auth/too-many-requests"),
     AuthError("auth/network-request-failed"), AuthError("auth/internal-error"),
     [code |-> Null, message |-> Null]}

\* Mutant: every rejected sign-in shows the default message.
signInErrorMessage_default(err) == "Failed to sign in. Please try again."

\* The catch block of signIn: the message shown for a rejected sign-in.
signInErrorMessage(err) ==
    CASE err.code = "auth/invalid-credential" -> "Invalid email or password."
      [] err.code = "auth/user-not-found" -> "No account found with this email."
      [] err.code = "auth/wrong-password" -> "Incorrect password."
      [] err.code = "auth/too-many-requests" ->
            "Too many failed attempts. Please try again later."
      [] err.code = "auth/network-request-failed" ->
            "Network error. Please check your connection."
      [] OTHER -> IF err.message # Null THEN err.message
                  ELSE "Failed to sign in. Please try again."

\* The ?redirect= parameter of the page's URL, when there is one.
RedirectParams == {Null, "", "/practitioner/dashboard"}

\* signIn(email, password) up to its first await.
signIn ==
    /\ useSignIn.pc \in {"idle", "done"}
    /\ useSignIn.n < MaxAttempts
    /\ useSignIn' = [IdleSignIn EXCEPT !.pc = "signInWithEmailAndPassword",
                                       !.n = useSignIn.n + 1,
                                       !.loading = TRUE, !.error = Null]
    /\ UNCHANGED <<stores, calls, invoked, authUsers, useSignUp, toasts, pushes, subs, ui, rt>>

\* await signInWithEmailAndPassword(auth, email, password)
signIn_signInWithEmailAndPassword ==
    /\ useSignIn.pc = "signInWithEmailAndPassword"
    /\ \/ \E uid \in authUsers, redirectParam \in RedirectParams :
            /\ Toast(useSignIn.n, "success", "Signed in successfully")
            /\ IF redirectParam \notin {Null, ""}
               THEN /\ pushes' = Append(pushes, <<useSignIn.n, redirectParam>>)
                    /\ useSignIn' = [useSignIn EXCEPT !.pc = "done", !.uid = uid,
                                                      !.redirectParam = redirectParam,
                                                      !.loading = FALSE]
                    /\ UNCHANGED <<calls, invoked, rt>>
               ELSE /\ HookCall("getUser", uid, NoInput, "useSignIn")
                    /\ useSignIn' = [useSignIn EXCEPT !.pc = "getUser", !.uid = uid,
                                                      !.redirectParam = redirectParam]
                    /\ UNCHANGED pushes
       \/ \E err \in SignInErrors :
            /\ useSignIn' = [useSignIn EXCEPT !.pc = "done", !.caught = err,
                                              !.error = signInErrorMessage(err),
                                              !.loading = FALSE]
            /\ Toast(useSignIn.n, "error", signInErrorMessage(err))
            /\ UNCHANGED <<calls, invoked, pushes, rt>>
    /\ UNCHANGED <<stores, authUsers, useSignUp, subs, ui, rt>>

\* Mutant: the landing route is pushed whether or not the profile was fetched.
signIn_getUser_noFallback ==
    /\ useSignIn.pc = "getUser"
    /\ HookAwaits("useSignIn")
    /\ pushes' = Append(pushes, <<useSignIn.n, "/dashboard">>)
    /\ useSignIn' = [useSignIn EXCEPT !.pc = "done", !.loading = FALSE]
    /\ calls' = [calls EXCEPT ![1] = IdleCall]
    /\ UNCHANGED <<stores, invoked, authUsers, useSignUp, toasts, subs, ui, rt>>

\* await userRepository.getUser(uid) settles.
signIn_getUser ==
    /\ useSignIn.pc = "getUser"
    /\ HookAwaits("useSignIn")
    /\ pushes' = Append(pushes, <<useSignIn.n,
                                  IF calls[1].pc = "resolved" THEN "/dashboard"
                                  ELSE "/client/dashboard">>)
    /\ useSignIn' = [useSignIn EXCEPT !.pc = "done", !.loading = FALSE]
    /\ calls' = [calls EXCEPT ![1] = IdleCall]
    /\ UNCHANGED <<stores, invoked, authUsers, useSignUp, toasts, subs, ui, rt>>

\* ------------------------------------------------ specification: the sign-in
InitSignIn ==
    /\ users \in {EmptyUsers, [EmptyUsers EXCEPT !["u1"] = SeedUser("u1", "client")]}
    /\ practitioners = EmptyUsers
    /\ appointments = EmptyAppointments
    /\ clock = 1
    /\ calls = [c \in {1} |-> IdleCall]
    /\ invoked = {}
    /\ authUsers = {"u1"}
    /\ useSignUp = IdleSignUp
    /\ useSignIn = IdleSignIn
    /\ toasts = <<>>
    /\ pushes = <<>>
    /\ sub = NoSub
    /\ callbacks = <<>>
    /\ InitUi

NextSignIn ==
    \/ signIn
    \/ signIn_signInWithEmailAndPassword
    \/ signIn_getUser
    \/ \E c \in DOMAIN calls : getUser(c)

SpecSignIn == InitSignIn /\ [][NextSignIn]_vars

\* ------------------------------------------------- subscribeToAppointments
SubscriptionOptions ==
    {Opt("practitionerId", pr) @@ Opt("status", st) @@ lim :
        pr \in {"u2", None}, st \in {"pending", None},
        lim \in {<<>>, [limit |-> 1]}}

\* subscribeToAppointments(options, callback): builds the query and registers
\* the two listeners; the store answers with a first snapshot.
subscribeToAppointments ==
    /\ sub.status = "none"
    /\ \E o \in SubscriptionOptions :
        sub' = [status |-> "active", options |-> o, fired |-> 0,
                pending |-> <<QuerySnapshot(appointments, o, Absent)>>]
    /\ UNCHANGED <<stores, calls, invoked, hooks, callbacks, ui, rt>>

\* Mutant: the error listener only logs.
onSnapshotError_silent(log, error) == log

\* (snapshot) => { ...; callback(appointments) }
onSnapshotNext(log, snapshot) == Append(log, mapDocs(snapshot))

\* (error) => { console.error(...); callback([]) }
onSnapshotError(log, error) == Append(log, <<>>)

\* The SDK delivers the next queued snapshot to the listener.
onSnapshot_next ==
    /\ sub.status = "active"
    /\ sub.pending # <<>>
    /\ callbacks' = onSnapshotNext(callbacks, Head(sub.pending))
    /\ sub' = [sub EXCEPT !.pending = Tail(@), !.fired = @ + 1]
    /\ UNCHANGED <<stores, calls, invoked, hooks, ui, rt>>

\* The listen fails: the SDK calls the error listener and ends the listen.
onSnapshot_error ==
    /\ sub.status = "active"
    /\ callbacks' = onSnapshotError(callbacks, "permission-denied")
    /\ sub' = [sub EXCEPT !.status = "errored", !.pending = <<>>, !.fired = @ + 1]
    /\ UNCHANGED <<stores, calls, invoked, hooks, ui, rt>>

\* The function subscribeToAppointments returned.
unsubscribe ==
    /\ sub.status \in {"active", "errored"}
    /\ sub' = [sub EXCEPT !.status = "closed", !.pending = <<>>]
    /\ UNCHANGED <<stores, calls, invoked, hooks, callbacks, ui, rt>>

\* ------------------------------------------- specification: the subscription
InitSub == InitAppt

NextSub ==
    \/ subscribeToAppointments
    \/ onSnapshot_next
    \/ onSnapshot_error
    \/ unsubscribe
    \/ \E c \in DOMAIN calls : InvokeAppointmentWrite(c)
    \/ \E c \in DOMAIN calls : awaitSettled(c)
    \/ \E c \in DOMAIN calls : createAppointment(c)
    \/ \E c \in DOMAIN calls : updateAppointment(c)

SpecSub == InitSub /\ [][NextSub]_vars

\* --------------------------------------------------------------- AuthProvider
\* if (userDoc.role)
HasRole(d) == d # Absent /\ "role" \in DOMAIN d /\ d.role # Null

\* A stored user document written before the role field existed.
LegacyUser(u) ==
    [f \in DOMAIN SeedUser(u, "client") \ {"role"} |-> SeedUser(u, "client")[f]]

\* The call records the provider's background lookups run in.
AuthSlots == {2, 3}
FreeAuthSlot == CHOOSE c \in AuthSlots : calls[c].pc = "idle" /\
                    \A d \in AuthSlots : calls[d].pc = "idle" => c <= d

\* Mutant: the provider publishes no role until the lookup answers.
defaultRole_none == Null

\* setRole('client'): the role published before the lookup answers.
defaultRole == "client"

\* onAuthStateChanged fires with a user: setUser, setRole('client'), start the
\* lookup without awaiting it, setLoading(false).
onAuthStateChanged_user ==
    /\ authContext.events < MaxAuthEvents
    /\ \E c \in AuthSlots : calls[c].pc = "idle"
    /\ \E uid \in authUsers :
        /\ authContext' = [user |-> uid, role |-> defaultRole, loading |-> FALSE,
                           events |-> authContext.events + 1]
        /\ calls' = [calls EXCEPT ![FreeAuthSlot] =
                        StartCall("getUser", uid, [event |-> authContext.events + 1],
                                  "AuthProvider")]
    /\ UNCHANGED <<stores, invoked, hooks, subs, page, nav, useSignInWithGoogle,
                   useSignOut, useCreateAppointment, useUpdateAppointment,
                   usePractitioner, rt>>

\* onAuthStateChanged fires with null: setUser(null), setRole(null),
\* setLoading(false).
onAuthStateChanged_null ==
    /\ authContext.events < MaxAuthEvents
    /\ authContext' = [user |-> Null, role |-> Null, loading |-> FALSE,
                       events |-> authContext.events + 1]
    /\ UNCHANGED <<stores, calls, invoked, hooks, subs, page, nav,
                   useSignInWithGoogle, useSignOut, useCreateAppointment,
                   useUpdateAppointment, usePractitioner, rt>>

\* .then((userDoc) => ...) and .catch(...) of the background lookup.
onAuthStateChanged_getUser(c) ==
    /\ calls[c].via = "AuthProvider"
    /\ calls[c].op = "getUser"
    /\ calls[c].pc \in {"resolved", "rejected"}
    /\ IF calls[c].pc = "resolved" /\ HasRole(calls[c].ret)
       THEN /\ authContext' = [authContext EXCEPT !.role = calls[c].ret.role]
            /\ calls' = [calls EXCEPT ![c] = IdleCall]
       ELSE IF calls[c].pc = "resolved" /\ calls[c].ret # Absent
       THEN /\ calls' = [calls EXCEPT ![c] =
                    [IdleCall EXCEPT !.op = "updateDoc", !.pc = "updateDoc",
                                     !.key = calls[c].key,
                                     !.input = [role |-> "client"],
                                     !.via = "AuthProvider", !.method = "updateDoc",
                                     !.before = users[calls[c].key]]]
            /\ UNCHANGED authContext
       ELSE /\ calls' = [calls EXCEPT ![c] = IdleCall]
            /\ UNCHANGED authContext
    /\ UNCHANGED <<stores, invoked, hooks, subs, page, nav, useSignInWithGoogle,
                   useSignOut, useCreateAppointment, useUpdateAppointment,
                   usePractitioner, rt>>

\* updateDoc(userRef, { role: 'client' }).catch(...): the legacy backfill; a
\* failure is only logged.
legacyRoleBackfill(c) ==
    /\ calls[c].via = "AuthProvider"
    /\ calls[c].pc = "updateDoc"
    /\ \E ok \in BOOLEAN :
        IF ok /\ users[calls[c].key] # Absent
        THEN users' = [users EXCEPT ![calls[c].key] = Merge(@, calls[c].input)]
        ELSE UNCHANGED users
    /\ calls' = [calls EXCEPT ![c] = IdleCall]
    /\ UNCHANGED <<practitioners, appointments, clock, env>>

\* ------------------------------------------------------------------ the pages
\* A route is its sequence of path segments.
LoginPath == <<"login">>
DashboardPath == <<"dashboard">>
ClientDashboardPath == <<"client", "dashboard">>
PractitionerDashboardPath == <<"practitioner", "dashboard">>
Paths == {<<>>, LoginPath, DashboardPath, ClientDashboardPath,
          PractitionerDashboardPath}
\* The routes whose page wraps its content in <RequireAuth>.
GatedPaths == {DashboardPath, ClientDashboardPath, PractitionerDashboardPath}

RECURSIVE Join(_, _)
Join(sep, segments) ==
    IF segments = <<>> THEN ""
    ELSE sep \o Head(segments) \o Join(sep, Tail(segments))

\* usePathname()
pathname(path) == IF path = <<>> THEN "/" ELSE Join("/", path)

\* encodeURIComponent of a path: every '/' becomes %2F.
encodeURIComponent(path) == IF path = <<>> THEN "%2F" ELSE Join("%2F", path)

\* The user opens a route (a link, the address bar, or a hook's router.push
\* taking effect); its components mount afresh.  redirectTo is the optional
\* prop of RequireAuth: <<>> when not given, <<path>> when given.
Visit ==
    /\ \E path \in Paths, redirectTo \in {<<>>, <<ClientDashboardPath>>} :
        /\ redirectTo # <<>> => path = PractitionerDashboardPath
        /\ page' = [path |-> path, redirectTo |-> redirectTo,
                    gate |-> Absent, dash |-> Absent,
                    booking |-> "none"]
    /\ nav' = Absent
    /\ UNCHANGED <<stores, calls, invoked, hooks, subs, authContext,
                   useSignInWithGoogle, useSignOut, useCreateAppointment,
                   useUpdateAppointment, usePractitioner, rt>>

\* What RequireAuth renders.
RequireAuthView(ctx) ==
    IF ctx.loading THEN "checking"
    ELSE IF ctx.user = Null THEN "redirecting"
    ELSE "children"

\* Mutant: the login URL carries the path as it is.
loginUrl_unencoded(redirectTo, path) ==
    "/login?redirect=" \o pathname(IF redirectTo # <<>> THEN redirectTo[1] ELSE path)

\* `${loginUrl}?redirect=${encodeURIComponent(redirectTo || pathname)}`
loginUrl(redirectTo, path) ==
    "/login?redirect=" \o
        encodeURIComponent(IF redirectTo # <<>> THEN redirectTo[1] ELSE path)

\* useEffect of RequireAuth: runs after mount and when user or loading change.
RequireAuth_effect ==
    LET deps == [user |-> authContext.user, loading |-> authContext.loading] IN
    /\ page.path \in GatedPaths
    /\ page.gate # deps
    /\ IF ~authContext.loading /\ authContext.user = Null
       THEN /\ nav' = [by |-> "RequireAuth", method |-> "push",
                       url |-> loginUrl(page.redirectTo, page.path)]
            /\ page' = [path |-> LoginPath, redirectTo |-> <<>>,
                        gate |-> Absent, dash |-> Absent,
                    booking |-> "none"]
       ELSE /\ page' = [page EXCEPT !.gate = deps]
            /\ UNCHANGED nav
    /\ UNCHANGED <<stores, calls, invoked, hooks, subs, authContext,
                   useSignInWithGoogle, useSignOut, useCreateAppointment,
                   useUpdateAppointment, usePractitioner, rt>>

\* DashboardRedirect: if (role === 'practitioner') ... else ...
dashboardFor(role) ==
    IF role = "practitioner" THEN PractitionerDashboardPath ELSE ClientDashboardPath

\* useEffect of DashboardRedirect, mounted under RequireAuth on /dashboard:
\* runs after mount and when user, role or loading change.
DashboardRedirect_effect ==
    LET deps == [user |-> authContext.user, role |-> authContext.role,
                 loading |-> authContext.loading] IN
    /\ page.path = DashboardPath
    /\ RequireAuthView(authContext) = "children"
    /\ page.dash # deps
    /\ IF ~authContext.loading /\ authContext.user # Null
       THEN /\ nav' = [by |-> "DashboardRedirect", method |-> "replace",
                       url |-> pathname(dashboardFor(authContext.role))]
            /\ page' = [path |-> dashboardFor(authContext.role), redirectTo |-> <<>>,
                        gate |-> Absent, dash |-> Absent,
                    booking |-> "none"]
       ELSE /\ page' = [page EXCEPT !.dash = deps]
            /\ UNCHANGED nav
    /\ UNCHANGED <<stores, calls, invoked, hooks, subs, authContext,
                   useSignInWithGoogle, useSignOut, useCreateAppointment,
                   useUpdateAppointment, usePractitioner, rt>>

\* ------------------------------------ specification: the session and its pages
InitAuth ==
    /\ users \in {[u \in Uids |-> IF u = "u1" THEN SeedUser(u, "practitioner")
                                  ELSE LegacyUser(u)],
                  [u \in Uids |-> IF u = "u1" THEN SeedUser(u, "client") ELSE Absent]}
    /\ practitioners = EmptyUsers
    /\ appointments = EmptyAppointments
    /\ clock = 1
    /\ calls = [c \in {1, 2, 3} |-> IdleCall]
    /\ invoked = {}
    /\ authUsers = Uids
    /\ useSignUp = IdleSignUp
    /\ useSignIn = IdleSignIn
    /\ toasts = <<>>
    /\ pushes = <<>>
    /\ sub = NoSub
    /\ callbacks = <<>>
    /\ InitUi

NextAuth ==
    \/ onAuthStateChanged_user
    \/ onAuthStateChanged_null
    \/ \E c \in AuthSlots : getUser(c)
    \/ \E c \in AuthSlots : onAuthStateChanged_getUser(c)
    \/ \E c \in AuthSlots : legacyRoleBackfill(c)
    \/ Visit
    \/ RequireAuth_effect
    \/ DashboardRedirect_effect

SpecAuth == InitAuth /\ [][NextAuth]_vars

\* -------------------------------------------------------- useSignInWithGoogle
GoogleErrors ==
    {AuthError("auth/popup-closed-by-user"), AuthError("auth/popup-blocked"),
     AuthError("auth/network-request-failed"),
     AuthError("auth/account-exists-with-different-credential"),
     AuthError("auth/internal-error"), [code |-> Null, message |-> Null]}

PopupClosed == "auth/popup-closed-by-user"

\* The catch block of signInWithGoogle: errorMessage.
googleErrorMessage(err) ==
    CASE err.code = PopupClosed -> "Sign in was cancelled."
      [] err.code = "auth/popup-blocked" ->
            "Popup was blocked. Please allow popups for this site."
      [] err.code = "auth/network-request-failed" ->
            "Network error. Please check your connection."
      [] err.code = "auth/account-exists-with-different-credential" ->
            "An account already exists with this email. Please sign in with your email and password."
      [] OTHER -> IF err.message # Null THEN err.message
                  ELSE "Failed to sign in with Google. Please try again."

\* Mutant: a closed popup is reported like any other failure.
googleErrorIsShown_always(err) == TRUE

\* if (error.code !== 'auth/popup-closed-by-user')
googleErrorIsShown(err) == err.code # PopupClosed

\* userRepository.userExists(uid): getDoc, then userDoc.exists().
userExists(c) ==
    /\ At(c, "userExists", "getDoc")
    /\ \E ok \in BOOLEAN :
         IF ~ok THEN Reject(c, Unavailable)
         ELSE Resolve(c, [value |-> users[calls[c].key] # Absent])
    /\ UNCHANGED <<stores, env>>

\* if (!exists)
googleCreatesProfile(exists) == ~exists

\* The profile the background step creates for a Google user.
googleProfileInput(uid) ==
    [uid |-> uid, email |-> Email(uid), role |-> "client",
     displayName |-> Null, photoURL |-> Null, emailVerified |-> TRUE]

\* signInWithGoogle() up to its first await.
signInWithGoogle ==
    /\ useSignInWithGoogle.pc \in {"idle", "done"}
    /\ useSignInWithGoogle.n < MaxAttempts
    /\ useSignInWithGoogle' = [IdleHook EXCEPT !.pc = "signInWithPopup",
                                               !.n = useSignInWithGoogle.n + 1,
                                               !.loading = TRUE, !.error = Null]
    /\ UNCHANGED <<stores, calls, invoked, hooks, subs, authContext, page, nav,
                   useSignOut, useCreateAppointment, useUpdateAppointment,
                   usePractitioner, rt>>

\* await signInWithPopup(auth, provider) settles: on success the toast, the
\* push and the start of the background step; on failure the catch block;
\* then the finally.
signInWithGoogle_signInWithPopup ==
    LET n == useSignInWithGoogle.n IN
    /\ useSignInWithGoogle.pc = "signInWithPopup"
    /\ \/ \E uid \in Uids, redirectParam \in RedirectParams :
            /\ \E c \in AuthSlots : calls[c].pc = "idle"
            /\ authUsers' = authUsers \cup {uid}
            /\ toasts' = Append(toasts, <<n, "success", "Signed in with Google successfully">>)
            /\ pushes' = Append(pushes, <<n, IF redirectParam \notin {Null, ""}
                                             THEN redirectParam ELSE "/dashboard">>)
            /\ calls' = [calls EXCEPT ![FreeAuthSlot] =
                            StartCall("userExists", uid, [attempt |-> n],
                                      "useSignInWithGoogle")]
            /\ invoked' = invoked \cup {<<"userExists", uid>>}
            /\ useSignInWithGoogle' = [useSignInWithGoogle EXCEPT
                                            !.pc = "done", !.loading = FALSE]
       \/ \E err \in GoogleErrors :
            /\ useSignInWithGoogle' = [useSignInWithGoogle EXCEPT
                    !.pc = "done", !.caught = err,
                    !.error = IF googleErrorIsShown(err) THEN googleErrorMessage(err)
                              ELSE Null,
                    !.loading = FALSE]
            /\ toasts' = IF googleErrorIsShown(err)
                         THEN Append(toasts, <<n, "error", googleErrorMessage(err)>>)
                         ELSE toasts
            /\ UNCHANGED <<calls, invoked, pushes, authUsers, rt>>
    /\ UNCHANGED <<stores, useSignUp, useSignIn, subs, authContext, page, nav,
                   useSignOut, useCreateAppointment, useUpdateAppointment,
                   usePractitioner, rt>>

\* .then((exists) => { if (!exists) return createUserProfile(...) }) and the
\* .catch of a rejected userExists, which only logs.
signInWithGoogle_userExists(c) ==
    /\ calls[c].via = "useSignInWithGoogle"
    /\ calls[c].op = "userExists"
    /\ calls[c].pc \in {"resolved", "rejected"}
    /\ IF calls[c].pc = "resolved" /\ googleCreatesProfile(calls[c].ret.value)
       THEN /\ calls' = [calls EXCEPT ![c] =
                    [StartCall("createUserProfile", calls[c].key,
                               googleProfileInput(calls[c].key),
                               "useSignInWithGoogle")
                        EXCEPT !.before = users[calls[c].key]]]
            /\ invoked' = invoked \cup {<<"createUserProfile", calls[c].key>>}
       ELSE /\ calls' = [calls EXCEPT ![c] = IdleCall]
            /\ UNCHANGED invoked
    /\ UNCHANGED <<stores, hooks, subs, ui, rt>>

\* The background createUserProfile settles; .catch only logs.
signInWithGoogle_createUserProfile(c) ==
    /\ calls[c].via = "useSignInWithGoogle"
    /\ calls[c].op = "createUserProfile"
    /\ calls[c].pc \in {"resolved", "rejected"}
    /\ calls' = [calls EXCEPT ![c] = IdleCall]
    /\ UNCHANGED <<stores, invoked, hooks, subs, ui, rt>>

\* ------------------------------------------ specification: the Google sign-in
InitGoogle ==
    /\ users \in {EmptyUsers,
                  [EmptyUsers EXCEPT !["u1"] = SeedUser("u1", "practitioner")]}
    /\ practitioners = EmptyUsers
    /\ appointments = EmptyAppointments
    /\ clock = 0
    /\ calls = [c \in {1, 2, 3} |-> IdleCall]
    /\ invoked = {}
    /\ authUsers = {"u1"}
    /\ useSignUp = IdleSignUp
    /\ useSignIn = IdleSignIn
    /\ toasts = <<>>
    /\ pushes = <<>>
    /\ sub = NoSub
    /\ callbacks = <<>>
    /\ InitUi

NextGoogle ==
    \/ signInWithGoogle
    \/ signInWithGoogle_signInWithPopup
    \/ \E c \in AuthSlots : userExists(c)
    \/ \E c \in AuthSlots : signInWithGoogle_userExists(c)
    \/ \E c \in AuthSlots : createUserProfile(c)
    \/ \E c \in AuthSlots : signInWithGoogle_createUserProfile(c)

SpecGoogle == InitGoogle /\ [][NextGoogle]_vars

\* ------------------------------------------------------------------ useSignOut
\* What auth.signOut() rejects with.
SignOutErrors == {AuthError("auth/network-request-failed"),
                  [code |-> Null, message |-> Null]}

\* error.message || 'Failed to sign out. Please try again.'
signOutErrorMessage(err) ==
    IF err.message # Null THEN err.message
    ELSE "Failed to sign out. Please try again."

\* signOut() up to its first await.
signOut ==
    /\ useSignOut.pc \in {"idle", "done"}
    /\ useSignOut.n < MaxAttempts
    /\ useSignOut' = [IdleHook EXCEPT !.pc = "authSignOut", !.n = useSignOut.n + 1,
                                      !.loading = TRUE, !.error = Null]
    /\ UNCHANGED <<stores, calls, invoked, hooks, subs, authContext, page, nav,
                   useSignInWithGoogle, useCreateAppointment, useUpdateAppointment,
                   usePractitioner, rt>>

\* Mutant: loading is switched off on the success path only.
signOut_authSignOut_noFinally ==
    /\ useSignOut.pc = "authSignOut"
    /\ \/ /\ authContext' = [authContext EXCEPT !.user = Null, !.role = Null]
          /\ toasts' = Append(toasts, <<useSignOut.n, "success", "Signed out successfully">>)
          /\ pushes' = Append(pushes, <<useSignOut.n, "/">>)
          /\ useSignOut' = [useSignOut EXCEPT !.pc = "done", !.loading = FALSE]
       \/ \E err \in SignOutErrors :
          /\ useSignOut' = [useSignOut EXCEPT !.pc = "done", !.caught = err,
                                              !.error = signOutErrorMessage(err)]
          /\ toasts' = Append(toasts, <<useSignOut.n, "error", signOutErrorMessage(err)>>)
          /\ UNCHANGED <<authContext, pushes, rt>>
    /\ UNCHANGED <<stores, calls, invoked, authUsers, useSignUp, useSignIn, subs,
                   page, nav, useSignInWithGoogle, useCreateAppointment,
                   useUpdateAppointment, usePractitioner, rt>>

\* await authSignOut() settles (AuthProvider.signOut: auth.signOut(), then
\* setUser(null) and setRole(null)); the toast and the push, or the catch;
\* then the finally.
signOut_authSignOut ==
    /\ useSignOut.pc = "authSignOut"
    /\ \/ /\ authContext' = [authContext EXCEPT !.user = Null, !.role = Null]
          /\ toasts' = Append(toasts, <<useSignOut.n, "success", "Signed out successfully">>)
          /\ pushes' = Append(pushes, <<useSignOut.n, "/">>)
          /\ useSignOut' = [useSignOut EXCEPT !.pc = "done", !.loading = FALSE]
       \/ \E err \in SignOutErrors :
          /\ useSignOut' = [useSignOut EXCEPT !.pc = "done", !.caught = err,
                                              !.error = signOutErrorMessage(err),
                                              !.loading = FALSE]
          /\ toasts' = Append(toasts, <<useSignOut.n, "error", signOutErrorMessage(err)>>)
          /\ UNCHANGED <<authContext, pushes, rt>>
    /\ UNCHANGED <<stores, calls, invoked, authUsers, useSignUp, useSignIn, subs,
                   page, nav, useSignInWithGoogle, useCreateAppointment,
                   useUpdateAppointment, usePractitioner, rt>>

\* ------------------------------------ useCreateAppointment, useUpdateAppointment
\* err instanceof Error ? err.message : fallback; the repositories and the SDK
\* reject with Error objects, whose message is the call's err.
appointmentErrorMessage(err, fallback) == IF err # Null THEN err ELSE fallback

\* useCreateAppointment().createAppointment(input) up to its await: what it
\* does to the hook and to the repository.
createAppointmentViaHook(input) ==
    /\ useCreateAppointment.pc \in {"idle", "done"}
    /\ useCreateAppointment.n < MaxAttempts
    /\ useCreateAppointment' =
            [IdleAppointmentHook EXCEPT !.pc = "createAppointment",
                                        !.n = useCreateAppointment.n + 1,
                                        !.loading = TRUE, !.error = Null]
    /\ HookCall("createAppointment", 0, input, "useCreateAppointment")

\* The same, invoked by a caller that has no state of its own.
useCreateAppointment_createAppointment(input) ==
    /\ createAppointmentViaHook(input)
    /\ UNCHANGED <<stores, hooks, subs, authContext, page, nav, useSignInWithGoogle,
                   useSignOut, useUpdateAppointment, usePractitioner, rt>>

\* await appointmentRepository.createAppointment(input) settles.
useCreateAppointment_settled ==
    LET n == useCreateAppointment.n
        message == appointmentErrorMessage(calls[1].err, "Failed to create appointment")
    IN
    /\ useCreateAppointment.pc = "createAppointment"
    /\ HookAwaits("useCreateAppointment")
    /\ IF calls[1].pc = "resolved"
       THEN /\ toasts' = Append(toasts, <<n, "success", "Appointment booked successfully!">>)
            /\ useCreateAppointment' = [useCreateAppointment EXCEPT
                    !.pc = "done", !.result = calls[1].ret, !.loading = FALSE]
       ELSE /\ toasts' = Append(toasts, <<n, "error", message>>)
            /\ useCreateAppointment' = [useCreateAppointment EXCEPT
                    !.pc = "done", !.error = message, !.loading = FALSE]
    /\ calls' = [calls EXCEPT ![1] = IdleCall]
    /\ UNCHANGED <<stores, invoked, authUsers, useSignUp, useSignIn, pushes, subs,
                   authContext, page, nav, useSignInWithGoogle, useSignOut,
                   useUpdateAppointment, usePractitioner, rt>>

\* The success toast of useUpdateAppointment.
updateAppointmentToast(input) ==
    IF "status" \in DOMAIN input /\ input.status = "confirmed"
    THEN "Appointment confirmed successfully!"
    ELSE IF "status" \in DOMAIN input /\ input.status = "cancelled"
    THEN "Appointment cancelled"
    ELSE "Appointment updated successfully!"

\* useUpdateAppointment().updateAppointment(appointmentId, input) up to its await.
useUpdateAppointment_updateAppointment(id, input) ==
    /\ useUpdateAppointment.pc \in {"idle", "done"}
    /\ useUpdateAppointment.n < MaxAttempts
    /\ useUpdateAppointment' =
            [IdleAppointmentHook EXCEPT !.pc = "updateAppointment",
                                        !.n = useUpdateAppointment.n + 1,
                                        !.loading = TRUE, !.error = Null]
    /\ HookCall("updateAppointment", id, input, "useUpdateAppointment")
    /\ UNCHANGED <<stores, hooks, subs, authContext, page, nav, useSignInWithGoogle,
                   useSignOut, useCreateAppointment, usePractitioner, rt>>

\* await appointmentRepository.updateAppointment(appointmentId, input) settles.
useUpdateAppointment_settled ==
    LET n == useUpdateAppointment.n
        message == appointmentErrorMessage(calls[1].err, "Failed to update appointment")
    IN
    /\ useUpdateAppointment.pc = "updateAppointment"
    /\ HookAwaits("useUpdateAppointment")
    /\ IF calls[1].pc = "resolved"
       THEN /\ toasts' = Append(toasts, <<n, "success",
                                          updateAppointmentToast(calls[1].input)>>)
            /\ useUpdateAppointment' = [useUpdateAppointment EXCEPT
                    !.pc = "done", !.result = calls[1].ret, !.loading = FALSE]
       ELSE /\ toasts' = Append(toasts, <<n, "error", message>>)
            /\ useUpdateAppointment' = [useUpdateAppointment EXCEPT
                    !.pc = "done", !.error = message, !.loading = FALSE]
    /\ calls' = [calls EXCEPT ![1] = IdleCall]
    /\ UNCHANGED <<stores, invoked, authUsers, useSignUp, useSignIn, pushes, subs,
                   authContext, page, nav, useSignInWithGoogle, useSignOut,
                   useCreateAppointment, usePractitioner, rt>>

\* --------------------------------------- specification: the six action hooks
ActionHooks == <<useSignIn, useSignUp, useSignInWithGoogle, useSignOut,
                 useCreateAppointment, useUpdateAppointment>>

\* The forms disable their controls while an action runs: one at a time.
NoActionRunning == \A i \in DOMAIN ActionHooks : ActionHooks[i].pc \in {"idle", "done"}

RECURSIVE Sum(_)
Sum(s) == IF s = <<>> THEN 0 ELSE Head(s) + Sum(Tail(s))

Invocations == Sum([i \in DOMAIN ActionHooks |-> ActionHooks[i].n])

MayInvoke == NoActionRunning /\ Invocations < MaxInvocations

InitHooks ==
    /\ users = [EmptyUsers EXCEPT !["u1"] = SeedUser("u1", "client")]
    /\ practitioners = EmptyUsers
    /\ appointments = [EmptyAppointments EXCEPT ![2] = SeedAppointment("u2", 2, "pending")]
    /\ clock = 0
    /\ calls = [c \in {1, 2, 3} |-> IdleCall]
    /\ invoked = {}
    /\ authUsers = {"u1"}
    /\ useSignUp = IdleSignUp
    /\ useSignIn = IdleSignIn
    /\ toasts = <<>>
    /\ pushes = <<>>
    /\ sub = NoSub
    /\ callbacks = <<>>
    /\ InitUi

NextHooks ==
    \/ MayInvoke /\ signIn
    \/ signIn_signInWithEmailAndPassword
    \/ signIn_getUser
    \/ MayInvoke /\ signUp
    \/ signUp_createUserWithEmailAndPassword
    \/ signUp_updateProfile
    \/ signUp_createUserProfile
    \/ signUp_createPractitionerProfile
    \/ signUp_sendEmailVerification
    \/ MayInvoke /\ signInWithGoogle
    \/ signInWithGoogle_signInWithPopup
    \/ \E c \in AuthSlots : signInWithGoogle_userExists(c)
    \/ \E c \in AuthSlots : signInWithGoogle_createUserProfile(c)
    \/ MayInvoke /\ signOut
    \/ signOut_authSignOut
    \/ MayInvoke /\ \E input \in CreateAppointmentInputs :
            useCreateAppointment_createAppointment(input)
    \/ useCreateAppointment_settled
    \/ MayInvoke /\ \E id \in {2}, input \in UpdateAppointmentInputs :
            useUpdateAppointment_updateAppointment(id, input)
    \/ useUpdateAppointment_settled
    \/ \E c \in DOMAIN calls : getUser(c)
    \/ \E c \in DOMAIN calls : userExists(c)
    \/ \E c \in DOMAIN calls : createUserProfile(c)
    \/ \E c \in DOMAIN calls : createPractitionerProfile(c)
    \/ \E c \in DOMAIN calls : createAppointment(c)
    \/ \E c \in DOMAIN calls : updateAppointment(c)

SpecHooks == InitHooks /\ [][NextHooks]_vars

\* Every pending SDK request is answered and every continuation that is ready
\* runs: the event loop does not stop while a step is enabled.
SpecHooksFair == SpecHooks /\ WF_vars(NextHooks)

\* ----------------------------------------------------- PractitionerProfilePage
PractitionerProfilePath(id) == <<"practitioners", id>>

\* The slot of the page's own fetch.
FetchSlot == 2

\* The page /practitioners/[id] mounts: usePractitioner(id) runs its effect,
\* fetchPractitioner, up to its await.
fetchPractitioner ==
    /\ page.booking = "none"
    /\ calls[FetchSlot].pc = "idle"
    /\ \E id \in Uids :
        /\ page' = [path |-> PractitionerProfilePath(id), redirectTo |-> <<>>,
                    gate |-> Absent, dash |-> Absent, booking |-> "none"]
        /\ usePractitioner' = [InitialUsePractitioner EXCEPT
                                    !.pc = "getPractitioner", !.id = id]
        /\ calls' = [calls EXCEPT ![FetchSlot] =
                        StartCall("getPractitioner", id, NoInput, "usePractitioner")]
        /\ invoked' = invoked \cup {<<"getPractitioner", id>>}
    /\ nav' = Absent
    /\ UNCHANGED <<stores, hooks, subs, authContext, useSignInWithGoogle, useSignOut,
                   useCreateAppointment, useUpdateAppointment, rt>>

\* await practitionerRepository.getPractitioner(practitionerId) settles.
fetchPractitioner_getPractitioner ==
    /\ usePractitioner.pc = "getPractitioner"
    /\ calls[FetchSlot].via = "usePractitioner"
    /\ calls[FetchSlot].pc \in {"resolved", "rejected"}
    /\ usePractitioner' =
        IF calls[FetchSlot].pc = "resolved"
        THEN [usePractitioner EXCEPT !.pc = "done", !.loading = FALSE,
                                     !.practitioner = calls[FetchSlot].ret]
        ELSE [usePractitioner EXCEPT !.pc = "done", !.loading = FALSE,
                                     !.error = calls[FetchSlot].err]
    /\ calls' = [calls EXCEPT ![FetchSlot] = IdleCall]
    /\ UNCHANGED <<stores, invoked, hooks, subs, authContext, page, nav,
                   useSignInWithGoogle, useSignOut, useCreateAppointment,
                   useUpdateAppointment, rt>>

\* if (!user || !practitioner || !selectedDate || !selectedTime) return;
\* (the date and the time are the slot chosen in handleBookAppointment)
bookingGuard ==
    /\ authContext.user # Null
    /\ usePractitioner.practitioner # Absent

\* The input handleBookAppointment passes to createAppointment.
bookingInput(user, practitioner, startTime) ==
    [clientId |-> user, practitionerId |-> practitioner.uid,
     startTime |-> startTime, endTime |-> startTime + practitioner.sessionDuration,
     notes |-> Null]

\* handleBookAppointment up to its await.
handleBookAppointment ==
    /\ page.path = PractitionerProfilePath(usePractitioner.id)
    /\ page.booking = "none"
    /\ bookingGuard
    /\ \E startTime \in Times :
        createAppointmentViaHook(
            bookingInput(authContext.user, usePractitioner.practitioner, startTime))
    /\ page' = [page EXCEPT !.booking = "awaiting"]
    /\ UNCHANGED <<stores, hooks, subs, authContext, nav, useSignInWithGoogle,
                   useSignOut, useUpdateAppointment, usePractitioner, rt>>

\* await createAppointment(...) returned: if (appointment) router.push('/dashboard')
handleBookAppointment_createAppointment ==
    /\ page.booking = "awaiting"
    /\ useCreateAppointment.pc = "done"
    /\ page' = [page EXCEPT !.booking = "none"]
    /\ pushes' = IF useCreateAppointment.result # Absent
                 THEN Append(pushes, <<useCreateAppointment.n, "/dashboard">>)
                 ELSE pushes
    /\ UNCHANGED <<stores, calls, invoked, authUsers, useSignUp, useSignIn, toasts,
                   subs, authContext, nav, useSignInWithGoogle, useSignOut,
                   useCreateAppointment, useUpdateAppointment, usePractitioner, rt>>

\* The slot of the settings page's call.
SettingsSlot == 3

\* The practitioner's settings page saves: updatePractitioner(uid, {isActive, ..}).
PractitionerSettings_onSubmit ==
    \E u \in Uids, in \in UpdatePractitionerProfileInputs :
        Call(SettingsSlot, "updatePractitioner", u, in, "caller")

\* ------------------------------------------------ specification: the booking
SignedInClient == [user |-> "u1", role |-> "client", loading |-> FALSE, events |-> 1]

InitBooking ==
    /\ users = [u \in Uids |-> SeedUser(u, IF u = "u1" THEN "client" ELSE "practitioner")]
    /\ practitioners \in
        {[EmptyUsers EXCEPT !["u2"] = SeedPractitioner("u2")],
         [EmptyUsers EXCEPT !["u2"] = [SeedPractitioner("u2") EXCEPT !.isActive = FALSE]]}
    /\ appointments = EmptyAppointments
    /\ clock = 0
    /\ calls = [c \in {1, 2, 3} |-> IdleCall]
    /\ invoked = {}
    /\ authUsers = Uids
    /\ useSignUp = IdleSignUp
    /\ useSignIn = IdleSignIn
    /\ toasts = <<>>
    /\ pushes = <<>>
    /\ sub = NoSub
    /\ callbacks = <<>>
    /\ authContext = SignedInClient
    /\ page = HomePage
    /\ nav = Absent
    /\ useSignInWithGoogle = IdleHook
    /\ useSignOut = IdleHook
    /\ useCreateAppointment = IdleAppointmentHook
    /\ useUpdateAppointment = IdleAppointmentHook
    /\ usePractitioner = InitialUsePractitioner
    /\ useAppointments = UnmountedUseAppointments
    /\ listeners = <<>>

NextBooking ==
    \/ fetchPractitioner
    \/ fetchPractitioner_getPractitioner
    \/ handleBookAppointment
    \/ useCreateAppointment_settled
    \/ handleBookAppointment_createAppointment
    \/ PractitionerSettings_onSubmit
    \/ awaitSettled(SettingsSlot)
    \/ \E c \in DOMAIN calls : getPractitioner(c)
    \/ \E c \in DOMAIN calls : updatePractitioner(c)
    \/ \E c \in DOMAIN calls : createAppointment(c)

SpecBooking == InitBooking /\ [][NextBooking]_vars

\* ------------------------------------ specification: the writers of User.role
\* The slot of a direct updateUser call (profile forms).
ProfileSlot == 4

\* A profile form saves: userRepository.updateUser(uid, input); the input type
\* UpdateUserProfileInput has no role field.
ProfileForm_updateUser ==
    \E u \in Uids, in \in UpdateUserProfileInputs :
        Call(ProfileSlot, "updateUser", u, in, "caller")

InitRole ==
    /\ users \in {[EmptyUsers EXCEPT !["u1"] = SeedUser("u1", "practitioner")],
                  [EmptyUsers EXCEPT !["u1"] = LegacyUser("u1")]}
    /\ practitioners = EmptyUsers
    /\ appointments = EmptyAppointments
    /\ clock = 0
    /\ calls = [c \in {1, 2, 3, 4} |-> IdleCall]
    /\ invoked = {}
    /\ authUsers = {"u1"}
    /\ useSignUp = IdleSignUp
    /\ useSignIn = IdleSignIn
    /\ toasts = <<>>
    /\ pushes = <<>>
    /\ sub = NoSub
    /\ callbacks = <<>>
    /\ InitUi

\* Sign-ups, Google sign-ins and auth events started so far.
RoleOps == useSignUp.n + useSignInWithGoogle.n + authContext.events

NextRole ==
    \/ ProfileForm_updateUser
    \/ awaitSettled(ProfileSlot)
    \/ RoleOps < MaxRoleOps /\ onAuthStateChanged_user
    \/ \E c \in AuthSlots : onAuthStateChanged_getUser(c)
    \/ \E c \in AuthSlots : legacyRoleBackfill(c)
    \/ RoleOps < MaxRoleOps /\ signUp
    \/ signUp_createUserWithEmailAndPassword
    \/ signUp_updateProfile
    \/ signUp_createUserProfile
    \/ signUp_createPractitionerProfile
    \/ signUp_sendEmailVerification
    \/ RoleOps < MaxRoleOps /\ signInWithGoogle
    \/ signInWithGoogle_signInWithPopup
    \/ \E c \in AuthSlots : signInWithGoogle_userExists(c)
    \/ \E c \in AuthSlots : signInWithGoogle_createUserProfile(c)
    \/ \E c \in DOMAIN calls : getUser(c)
    \/ \E c \in DOMAIN calls : userExists(c)
    \/ \E c \in DOMAIN calls : updateUser(c)
    \/ \E c \in DOMAIN calls : createUserProfile(c)
    \/ \E c \in DOMAIN calls : createPractitionerProfile(c)

SpecRole == InitRole /\ [][NextRole]_vars

\* ------------------------------------------------------------ useAppointments
\* The option values a component passes to useAppointments.
HookOptions ==
    {[practitionerId |-> "u2"], [practitionerId |-> "u2", status |-> "pending"]}

\* Marks the fetches of an instance of the hook that has been unmounted.
Unmounted == "useAppointments (unmounted)"

\* The call slots the hook's one-shot fetches wait in.
ListSlots == {2, 3}

\* onSnapshot(q, next, error): a listener as the SDK keeps it.  seen is the
\* snapshot it delivered last (<<>>: none yet).
NewListener(o) == [status |-> "active", options |-> o, seen |-> <<>>]

\* Mutant: the effect's cleanup leaves the listener registered.
effectCleanup_leaks(ls, i) == ls

\* return () => { unsubscribe() }: the cleanup of the effect that subscribed
\* (i = 0: the effect returned no cleanup).
effectCleanup(ls, i) ==
    IF i = 0 THEN ls ELSE [ls EXCEPT ![i].status = "closed"]

\* The effect of useAppointments, once the cleanup of the previous run is done:
\* with realtime it subscribes, otherwise it calls fetchAppointments, which runs
\* up to its await.
useAppointments_effect(h, o, r) ==
    LET ls == effectCleanup(listeners, useAppointments.listener) IN
    IF r
    THEN /\ Len(listeners) < MaxListeners
         /\ listeners' = Append(ls, NewListener(o))
         /\ useAppointments' = [h EXCEPT !.mounted = TRUE, !.realtime = r,
                                         !.options = o, !.loading = TRUE,
                                         !.error = Null,
                                         !.listener = Len(listeners) + 1]
         /\ UNCHANGED calls
    ELSE /\ listeners' = ls
         /\ useAppointments' = [h EXCEPT !.mounted = TRUE, !.realtime = r,
                                         !.options = o, !.loading = TRUE,
                                         !.error = Null, !.listener = 0]
         /\ \E c \in ListSlots :
                /\ calls[c].pc = "idle"
                /\ \A d \in ListSlots : d < c => calls[d].pc # "idle"
                /\ calls' = [calls EXCEPT ![c] =
                        StartCall("listAppointments", 0, o, "useAppointments")]

\* A component calling useAppointments(options) mounts.
useAppointments_mount(o, r) ==
    /\ ~useAppointments.mounted
    /\ useAppointments_effect(UnmountedUseAppointments, o, r)
    /\ UNCHANGED <<stores, invoked, hooks, subs, ui>>

\* The component renders with other options or another realtime flag: the
\* effect's dependencies [JSON.stringify(listOptions), useRealtime] differ, so
\* React runs the previous cleanup and then the effect.
useAppointments_rerender(o, r) ==
    /\ useAppointments.mounted
    /\ <<o, r>> # <<useAppointments.options, useAppointments.realtime>>
    /\ useAppointments_effect(useAppointments, o, r)
    /\ UNCHANGED <<stores, invoked, hooks, subs, ui>>

\* The component unmounts: React runs the effect's cleanup.  The fetches still
\* in flight belong to the unmounted instance: their state setters do nothing.
useAppointments_unmount ==
    /\ useAppointments.mounted
    /\ listeners' = effectCleanup(listeners, useAppointments.listener)
    /\ useAppointments' = [useAppointments EXCEPT !.mounted = FALSE, !.listener = 0]
    /\ calls' = [c \in DOMAIN calls |->
                    IF calls[c].via = "useAppointments"
                    THEN [calls[c] EXCEPT !.via = Unmounted]
                    ELSE calls[c]]
    /\ UNCHANGED <<stores, invoked, hooks, subs, ui>>

\* refetch: fetchAppointments called by the component; it returns at once
\* under realtime.
useAppointments_refetch ==
    /\ useAppointments.mounted
    /\ ~useAppointments.realtime
    /\ useAppointments' = [useAppointments EXCEPT !.loading = TRUE, !.error = Null]
    /\ \E c \in ListSlots :
        /\ calls[c].pc = "idle"
        /\ \A d \in ListSlots : d < c => calls[d].pc # "idle"
        /\ calls' = [calls EXCEPT ![c] =
                StartCall("listAppointments", 0, useAppointments.options,
                          "useAppointments")]
    /\ UNCHANGED <<stores, invoked, hooks, subs, ui, listeners>>

\* (updatedAppointments) => { setAppointments(updatedAppointments);
\* setLoading(false) }; state setters of an unmounted component do nothing.
useAppointments_callback(h, rows) ==
    IF h.mounted THEN [h EXCEPT !.appointments = rows, !.loading = FALSE] ELSE h

\* The SDK delivers the query's documents to listener i: at first, and again
\* whenever they differ from what it delivered last.  A listener that was
\* unsubscribed is never called.
listener_next(i) ==
    LET snapshot == QuerySnapshot(appointments, listeners[i].options, Absent) IN
    /\ listeners[i].status = "active"
    /\ listeners[i].seen # <<snapshot>>
    /\ listeners' = [listeners EXCEPT ![i].seen = <<snapshot>>]
    /\ useAppointments' = useAppointments_callback(useAppointments, mapDocs(snapshot))
    /\ UNCHANGED <<stores, calls, invoked, hooks, subs, ui>>

\* The listen of listener i fails: (error) => { ...; callback([]) }.
listener_error(i) ==
    /\ listeners[i].status = "active"
    /\ listeners' = [listeners EXCEPT ![i].status = "errored"]
    /\ useAppointments' = useAppointments_callback(useAppointments, <<>>)
    /\ UNCHANGED <<stores, calls, invoked, hooks, subs, ui>>

\* await appointmentRepository.listAppointments(listOptions) settles in
\* fetchAppointments: try, catch and finally.
fetchAppointments_listAppointments(c) ==
    /\ calls[c].via \in {"useAppointments", Unmounted}
    /\ calls[c].pc \in {"resolved", "rejected"}
    /\ useAppointments' =
        IF calls[c].via = Unmounted THEN useAppointments
        ELSE IF calls[c].pc = "resolved"
        THEN [useAppointments EXCEPT !.appointments = calls[c].rows,
                                     !.loading = FALSE]
        ELSE [useAppointments EXCEPT !.error = calls[c].err, !.loading = FALSE]
    /\ calls' = [calls EXCEPT ![c] = IdleCall]
    /\ UNCHANGED <<stores, invoked, hooks, subs, ui, listeners>>

\* ------------------------------------- specification: useAppointments, realtime
InitRealtime ==
    /\ users = EmptyUsers
    /\ practitioners = EmptyUsers
    /\ appointments \in
        {EmptyAppointments,
         [EmptyAppointments EXCEPT ![2] = SeedAppointment("u2", 2, "pending")]}
    /\ clock = 1
    /\ calls = [c \in {1} |-> IdleCall]
    /\ InitEnv

NextRealtime ==
    \/ \E o \in HookOptions : useAppointments_mount(o, TRUE)
    \/ \E o \in HookOptions : useAppointments_rerender(o, TRUE)
    \/ useAppointments_unmount
    \/ \E i \in 1..MaxListeners : i \in DOMAIN listeners /\ listener_next(i)
    \/ \E i \in 1..MaxListeners : i \in DOMAIN listeners /\ listener_error(i)
    \/ \E c \in DOMAIN calls : cancelAppointment(c)
    \/ \E c \in DOMAIN calls : awaitSettled(c)
    \/ \E c \in DOMAIN calls : updateAppointment(c)

SpecRealtime == InitRealtime /\ [][NextRealtime]_vars

\* ------------------------------ specification: one query, fetched and listened
\* Option values with the range filters and the cursor.
QueryOptions ==
    {Opt("practitionerId", pr) @@ sa @@ sb @@ lim @@ cur :
        pr \in {"u2", None},
        sa \in {<<>>, [startAfter |-> 1]},
        sb \in {<<>>, [startBefore |-> 2]},
        lim \in {<<>>, [limit |-> 1]},
        cur \in {<<>>, [startAfterDocId |-> 2]}}

InitQuery ==
    /\ users = EmptyUsers
    /\ practitioners = EmptyUsers
    /\ appointments \in
        {[EmptyAppointments EXCEPT ![1] = SeedAppointment("u2", 2, "pending"),
                                   ![2] = SeedAppointment("u2", 1, "pending")],
         [EmptyAppointments EXCEPT ![1] = SeedAppointment("u1", 1, "pending"),
                                   ![2] = SeedAppointment("u2", 2, "confirmed"),
                                   ![3] = SeedAppointment("u2", 3, "pending")]}
    /\ clock = 1
    /\ calls = [c \in {1} |-> IdleCall]
    /\ InitEnv

NextQuery ==
    \/ \E o \in QueryOptions : Call(1, "listAppointments", 0, o, "caller")
    \/ listAppointments(1)
    \/ awaitSettled(1)
    \/ \E o \in QueryOptions : useAppointments_mount(o, TRUE)
    \/ \E i \in 1..MaxListeners : i \in DOMAIN listeners /\ listener_next(i)

SpecQuery == InitQuery /\ [][NextQuery]_vars

\* -------------------------------- specification: concurrent profile creation
\* Two callers that create profiles, each call running its own getDoc, setDoc
\* and refetch in any interleaving with the other's.
InitCreate ==
    /\ users = EmptyUsers
    /\ practitioners = EmptyUsers
    /\ appointments = EmptyAppointments
    /\ clock = 0
    /\ calls = [c \in {1, 2} |-> IdleCall]
    /\ InitEnv

NextCreate ==
    \/ \E c \in DOMAIN calls, in \in CreateUserProfileInputs :
            Call(c, "createUserProfile", in.uid, in, "caller")
    \/ \E c \in DOMAIN calls, in \in CreatePractitionerProfileInputs :
            Call(c, "createPractitionerProfile", in.uid, in, "caller")
    \/ \E c \in DOMAIN calls : createUserProfile(c)
    \/ \E c \in DOMAIN calls : createPractitionerProfile(c)
    \/ \E c \in DOMAIN calls : awaitSettled(c)

SpecCreate == InitCreate /\ [][NextCreate]_vars

\* ------------------------------ specification: writers of one appointment
InitWriters ==
    /\ users = EmptyUsers
    /\ practitioners = EmptyUsers
    /\ appointments \in
        {EmptyAppointments,
         [EmptyAppointments EXCEPT ![1] = SeedAppointment("u2", 1, "pending")]}
    /\ clock = 0
    /\ calls = [c \in {1} |-> IdleCall]
    /\ InitEnv

NextWriters ==
    \/ \E c \in DOMAIN calls : InvokeAppointmentWrite(c)
    \/ \E c \in DOMAIN calls : cancelAppointment(c)
    \/ \E c \in DOMAIN calls : awaitSettled(c)
    \/ \E c \in DOMAIN calls : createAppointment(c)
    \/ \E c \in DOMAIN calls : updateAppointment(c)

SpecWriters == InitWriters /\ [][NextWriters]_vars

\* ------------------------- specification: sign-up and Google sign-in together
\* The two flows that create profiles, on empty collections; the clock starts
\* so that MaxWrites document writes fit below MaxClock.
InitOnboard ==
    /\ users = EmptyUsers
    /\ practitioners = EmptyUsers
    /\ appointments = EmptyAppointments
    /\ clock = MaxClock - MaxWrites
    /\ calls = [c \in {1, 2, 3} |-> IdleCall]
    /\ invoked = {}
    /\ authUsers = {"u1"}
    /\ useSignUp = IdleSignUp
    /\ useSignIn = IdleSignIn
    /\ toasts = <<>>
    /\ pushes = <<>>
    /\ sub = NoSub
    /\ callbacks = <<>>
    /\ InitUi

NextOnboard ==
    \/ RoleOps < MaxRoleOps /\ signUp
    \/ signUp_createUserWithEmailAndPassword
    \/ signUp_updateProfile
    \/ signUp_createUserProfile
    \/ signUp_createPractitionerProfile
    \/ signUp_sendEmailVerification
    \/ RoleOps < MaxRoleOps /\ signInWithGoogle
    \/ signInWithGoogle_signInWithPopup
    \/ \E c \in AuthSlots : signInWithGoogle_userExists(c)
    \/ \E c \in AuthSlots : signInWithGoogle_createUserProfile(c)
    \/ \E c \in DOMAIN calls : userExists(c)
    \/ \E c \in DOMAIN calls : createUserProfile(c)
    \/ \E c \in DOMAIN calls : createPractitionerProfile(c)

SpecOnboard == InitOnboard /\ [][NextOnboard]_vars

\* ----------------------- specification: two writers of the same appointments
InitUpdaters ==
    /\ users = EmptyUsers
    /\ practitioners = EmptyUsers
    /\ appointments =
        [EmptyAppointments EXCEPT ![1] = SeedAppointment("u2", 1, "pending")]
    /\ clock = 0
    /\ calls = [c \in {1, 2} |-> IdleCall]
    /\ InitEnv

NextUpdaters ==
    \/ \E c \in DOMAIN calls, id \in ApptIds, in \in UpdateAppointmentInputs :
            Call(c, "updateAppointment", id, in, "caller")
    \/ \E c \in DOMAIN calls : cancelAppointment(c)
    \/ \E c \in DOMAIN calls : awaitSettled(c)
    \/ \E c \in DOMAIN calls : updateAppointment(c)

SpecUpdaters == InitUpdaters /\ [][NextUpdaters]_vars

\* ------------------------------------ specification: useAppointments, one-shot
\* The option values of the fetching component: filters, and a page cursor.
FetchOptions ==
    HookOptions \cup {[practitionerId |-> "u2", startAfterDocId |-> 1]}

InitFetch ==
    /\ users = EmptyUsers
    /\ practitioners = EmptyUsers
    /\ appointments \in
        {[EmptyAppointments EXCEPT ![1] = SeedAppointment("u2", 1, "pending"),
                                   ![2] = SeedAppointment("u2", 2, "confirmed")],
         [EmptyAppointments EXCEPT ![1] = SeedAppointment("u2", 2, "confirmed")]}
    /\ clock = 1
    /\ calls = [c \in {1, 2, 3} |-> IdleCall]
    /\ InitEnv

NextFetch ==
    \/ \E o \in FetchOptions : useAppointments_mount(o, FALSE)
    \/ \E o \in FetchOptions : useAppointments_rerender(o, FALSE)
    \/ useAppointments_refetch
    \/ useAppointments_unmount
    \/ \E c \in ListSlots : listAppointments(c)
    \/ \E c \in ListSlots : fetchAppointments_listAppointments(c)

SpecFetch == InitFetch /\ [][NextFetch]_vars

\* ======================================================== claims C3 .. C7, C9
NotFoundErr(op, key) ==
    CASE op = "updateUser" -> UserNotFoundErr(key)
      [] op = "updatePractitioner" -> PractitionerNotFoundErr(key)
      [] OTHER -> AppointmentNotFoundErr

\* C3: createUserProfile for a key whose User document already exists never
\* reaches its write: it rejects with the 'already exists' error (or with the
\* backend's error when the existence read itself is refused), and the stored
\* document stays exactly the one that was there, timestamps included.
C3_CreateExistingUserRejects ==
    \A c \in DOMAIN calls :
        (calls[c].op = "createUserProfile" /\ calls[c].before # Absent) =>
            /\ calls[c].pc \in {"getDoc", "rejected"}
            /\ ~calls[c].wrote
            /\ users[calls[c].key] = calls[c].before
            /\ calls[c].pc = "rejected" =>
                    calls[c].err \in {UserExistsErr(calls[c].key), Unavailable}

C3_Witness ==
    \E c \in DOMAIN calls :
        /\ calls[c].op = "createUserProfile"
        /\ calls[c].before # Absent
        /\ calls[c].pc = "rejected"
        /\ calls[c].err = UserExistsErr(calls[c].key)
        /\ calls[c].input.role # users[calls[c].key].role

\* C4: a get-by-key on a key with no stored document ends in one step that
\* changes no collection and resolves to the absent result (null); the only
\* rejection is the backend refusing the read.
C4_GetAbsentResolvesNull ==
    [][\A c \in DOMAIN calls :
        (calls[c].op \in GetOps /\ calls[c].pc = "getDoc" /\ calls'[c] # calls[c]) =>
            /\ stores' = stores
            /\ DocAt(calls[c].op, calls[c].key) = Absent =>
                \/ calls'[c].pc = "resolved" /\ calls'[c].ret = Absent
                \/ calls'[c].pc = "rejected" /\ calls'[c].err = Unavailable]_vars

C4_Witness ==
    \E c \in DOMAIN calls :
        /\ calls[c].op = "getAppointment"
        /\ calls[c].pc = "resolved"
        /\ calls[c].ret = Absent
        /\ appointments[calls[c].key] = Absent
        /\ \E a \in ApptIds : appointments[a] # Absent

\* C5: an update (cancelAppointment included) of a key with no stored document
\* ends at its existence check: it rejects with the not-found error (or with
\* the backend's error when the read is refused), writes nothing and creates
\* no document for the key.
C5_UpdateAbsentRejects ==
    [][\A c \in DOMAIN calls :
        (/\ calls[c].op \in UpdateOps
         /\ calls[c].pc = "getDoc"
         /\ DocAt(calls[c].op, calls[c].key) = Absent
         /\ calls'[c] # calls[c]) =>
            /\ stores' = stores
            /\ calls'[c].pc = "rejected"
            /\ ~calls'[c].wrote
            /\ calls'[c].err \in {NotFoundErr(calls[c].op, calls[c].key), Unavailable}]_vars

C5_Witness ==
    \E c \in DOMAIN calls :
        /\ calls[c].op = "updateAppointment"
        /\ calls[c].method = "cancelAppointment"
        /\ calls[c].pc = "rejected"
        /\ calls[c].err = AppointmentNotFoundErr
        /\ appointments[calls[c].key] = Absent
        /\ clock = 1

CancelVias == {"cancelAppointment", "handleCancelAppointment"}
BookingFields == {"clientId", "practitionerId", "startTime", "endTime"}

\* C6: once a cancel of an existing, not yet cancelled appointment has written,
\* the document is still stored, its status is 'cancelled', cancelledBy is the
\* actor, cancelledAt is a time, and clientId, practitionerId, startTime and
\* endTime are what they were; the document returned says the same.
C6_CancelIsStatusChange ==
    \A c \in DOMAIN calls :
        (/\ calls[c].op = "updateAppointment"
         /\ calls[c].method \in CancelVias
         /\ calls[c].before # Absent
         /\ calls[c].before.status # "cancelled"
         /\ calls[c].wrote) =>
            LET d == appointments[calls[c].key] IN
            /\ d # Absent
            /\ d.status = "cancelled"
            /\ d.cancelledBy = calls[c].input.cancelledBy
            /\ d.cancelledBy \in Actors
            /\ calls[c].method = "handleCancelAppointment" => d.cancelledBy = "client"
            /\ "cancelledAt" \in DOMAIN d
            /\ d.cancelledAt # ServerTS
            /\ calls[c].method = "cancelAppointment" => d.cancelledAt = d.updatedAt
            /\ \A f \in BookingFields : d[f] = calls[c].before[f]
            /\ \A a \in ApptIds \ {calls[c].key} :
                    appointments[a] # Absent => appointments[a].updatedAt < clock
            /\ calls[c].pc = "resolved" => calls[c].ret = WithId(calls[c].key, d)

C6_Witness ==
    \E c \in DOMAIN calls :
        /\ calls[c].op = "updateAppointment"
        /\ calls[c].method = "cancelAppointment"
        /\ calls[c].before # Absent
        /\ calls[c].before.status = "confirmed"
        /\ calls[c].pc = "resolved"
        /\ calls[c].ret.status = "cancelled"
        /\ calls[c].ret.cancelledBy = "practitioner"

\* The default cap at work: over a store of DefaultLimit + 1 matching
\* appointments a query without a limit delivers DefaultLimit rows.
LargeStore == [a \in 1..(DefaultLimit + 1) |-> SeedAppointment("u2", 1, "pending")]
DefaultCapApplies ==
    /\ Len(RunQuery(LargeStore, [practitionerId |-> "u2", status |-> "pending"],
                    Absent)) = DefaultLimit
    /\ Len(RunQuery(LargeStore, [practitionerId |-> "u2", limit |-> 2], Absent)) = 2

\* C7: the rows listAppointments resolves to are stored appointments that match
\* the practitionerId filter and the status filter when given, are ordered
\* ascending by startTime, and are at most options.limit many, or at most 100
\* when no limit is given (the default cap itself is exercised on LargeStore,
\* once, before the first call).
C7_ListFilteredOrderedCapped ==
    /\ (clock = 1 /\ \A c \in DOMAIN calls : calls[c].pc = "idle") => DefaultCapApplies
    /\ \A c \in DOMAIN calls :
        (calls[c].op = "listAppointments" /\ calls[c].pc = "resolved") =>
            LET o == calls[c].input
                rows == calls[c].rows IN
            /\ \A i \in 1..Len(rows) :
                /\ appointments[rows[i].id] # Absent
                /\ rows[i] = WithId(rows[i].id, appointments[rows[i].id])
                /\ "practitionerId" \in DOMAIN o => rows[i].practitionerId = o.practitionerId
                /\ "status" \in DOMAIN o => rows[i].status = o.status
            /\ \A i, j \in 1..Len(rows) :
                i < j => /\ rows[i].startTime <= rows[j].startTime
                         /\ rows[i].id # rows[j].id
            /\ Len(rows) <= (IF "limit" \in DOMAIN o THEN o.limit ELSE DefaultLimit)

C7_Witness ==
    \E c \in DOMAIN calls :
        /\ calls[c].op = "listAppointments"
        /\ calls[c].pc = "resolved"
        /\ DOMAIN calls[c].input = {"practitionerId", "status", "limit"}
        /\ calls[c].input.limit = 2
        /\ Len(calls[c].rows) = 2
        /\ calls[c].rows[1].startTime < calls[c].rows[2].startTime
        /\ calls[c].rows[1].id > calls[c].rows[2].id
        /\ \E a \in ApptIds :
                /\ appointments[a] # Absent
                /\ appointments[a].practitionerId = calls[c].input.practitionerId
                /\ appointments[a].status # calls[c].input.status

\* C9: the document createAppointment has stored has status 'pending',
\* reminderSent = false, intakeFormCompleted = false and the clientId,
\* practitionerId, startTime and endTime of its input; so has the one returned.
C9_CreatedAppointmentDefaults ==
    \A c \in DOMAIN calls :
        (calls[c].op = "createAppointment" /\ calls[c].wrote) =>
            LET d == appointments[calls[c].key] IN
            /\ d # Absent
            /\ d.status = "pending"
            /\ d.reminderSent = FALSE
            /\ d.intakeFormCompleted = FALSE
            /\ \A f \in BookingFields : d[f] = calls[c].input[f]
            /\ calls[c].pc = "resolved" => calls[c].ret = WithId(calls[c].key, d)

C9_Witness ==
    \E c \in DOMAIN calls :
        /\ calls[c].op = "createAppointment"
        /\ calls[c].pc = "resolved"
        /\ calls[c].ret.status = "pending"
        /\ calls[c].ret.practitionerId = "u1"
        /\ \E a \in ApptIds \ {calls[c].key} :
                appointments[a] # Absent /\ appointments[a].status # "pending"

\* ================================================================ claims C1, C2
Toasted(n, kind, message) == \E i \in DOMAIN toasts : toasts[i] = <<n, kind, message>>

Warned(n) == \E i \in DOMAIN toasts : toasts[i][1] = n /\ toasts[i][2] = "warning"

PractitionerSignUpDone ==
    /\ useSignUp.pc = "done"
    /\ useSignUp.role = "practitioner"
    /\ useSignUp.uid # Null

\* Exactly the documents keyed by uid exist in the two collections.
OnlyProfilesOf(uid) ==
    /\ \A u \in Uids \ {uid} : users[u] = Absent \/ u \in authUsers
    /\ \A u \in Uids : users[u] # Absent => users[u].uid = u
    /\ \A u \in Uids : practitioners[u] # Absent => practitioners[u].uid = u

C2_ClientSignUpNoPractitioner ==
    (useSignUp.role = "client" /\ useSignUp.uid # Null) =>
        /\ <<"createPractitionerProfile", useSignUp.uid>> \notin invoked
        /\ \A c \in DOMAIN calls : calls[c].op # "createPractitionerProfile"
        /\ practitioners[useSignUp.uid] = Absent

C2_Witness ==
    /\ useSignUp.pc = "done"
    /\ useSignUp.role = "client"
    /\ useSignUp.uid # Null
    /\ users[useSignUp.uid] # Absent
    /\ users[useSignUp.uid].role = "client"
    /\ \E i \in DOMAIN pushes : pushes[i] = <<useSignUp.n, "/dashboard">>


\* ================================================================ claims C8, C10
Last(seq) == seq[Len(seq)]

\* C8: the subscriber's callback has been invoked exactly once for each
\* notification the store delivered; a delivered snapshot arrives as the
\* filtered rows in ascending startTime order, and once nothing is queued the
\* last rows are the complete current result of the subscription's query; a
\* subscription error arrives as one callback with the empty sequence.
C8_SubscriptionCallbacks ==
    /\ Len(callbacks) = sub.fired
    /\ sub.status = "errored" => Last(callbacks) = <<>>
    /\ (sub.status = "active" /\ sub.pending = <<>>) =>
            /\ sub.fired > 0
            /\ Last(callbacks) = RunQuery(appointments, sub.options, Absent)
    /\ \A k \in 1..Len(callbacks) :
        LET rows == callbacks[k]
            o == sub.options IN
        /\ \A i \in 1..Len(rows) :
            /\ "practitionerId" \in DOMAIN o => rows[i].practitionerId = o.practitionerId
            /\ "status" \in DOMAIN o => rows[i].status = o.status
        /\ \A i, j \in 1..Len(rows) :
            i < j => rows[i].startTime <= rows[j].startTime /\ rows[i].id # rows[j].id
        /\ Len(rows) <= (IF "limit" \in DOMAIN o THEN o.limit ELSE DefaultLimit)

C8_Witness ==
    /\ sub.status = "errored"
    /\ Len(callbacks) = 3
    /\ Len(callbacks[1]) = 1
    /\ Len(callbacks[2]) = 2
    /\ callbacks[3] = <<>>

\* C10: when signInWithEmailAndPassword rejects with auth/invalid-credential,
\* signIn ends with error = 'Invalid email or password.', has shown exactly
\* that error toast and no other toast, has set loading back to false and has
\* not called router.push.
C10_InvalidCredential ==
    (/\ useSignIn.pc = "done"
     /\ useSignIn.caught # Absent
     /\ useSignIn.caught.code = "auth/invalid-credential") =>
        /\ useSignIn.error = "Invalid email or password."
        /\ Toasted(useSignIn.n, "error", "Invalid email or password.")
        /\ \A i \in DOMAIN toasts :
                toasts[i][1] = useSignIn.n =>
                    toasts[i] = <<useSignIn.n, "error", "Invalid email or password.">>
        /\ useSignIn.loading = FALSE
        /\ \A i \in DOMAIN pushes : pushes[i][1] # useSignIn.n

C10_Witness ==
    /\ useSignIn.pc = "done"
    /\ useSignIn.n = 2
    /\ useSignIn.caught # Absent
    /\ useSignIn.caught.code = "auth/invalid-credential"
    /\ pushes # <<>>

\* ==================================================================== claim C11
AccountCreatedVerify ==
    "Account created! Please check your email to verify your account."
AccountCreated == "Account created successfully!"

C12_DefaultRoleThenStoredRole ==
    [][/\ (authContext'.events # authContext.events /\ authContext'.user # Null) =>
            /\ authContext'.role = "client"
            /\ authContext'.loading = FALSE
            /\ \E c \in AuthSlots :
                /\ calls'[c].pc = "getDoc"
                /\ calls'[c].key = authContext'.user
                /\ calls'[c].input.event = authContext'.events
       /\ \A c \in AuthSlots :
            (/\ calls[c].via = "AuthProvider"
             /\ calls[c].op = "getUser"
             /\ calls[c].pc \in {"resolved", "rejected"}
             /\ calls'[c] # calls[c]) =>
                IF calls[c].pc = "resolved" /\ HasRole(calls[c].ret)
                THEN /\ authContext' = [authContext EXCEPT !.role = calls[c].ret.role]
                     /\ calls[c].ret.role = users[calls[c].key].role
                ELSE /\ authContext' = authContext
                     /\ authContext.events = 1 => authContext.role = "client"
      ]_vars

C12_Witness ==
    /\ authContext.user = "u1"
    /\ authContext.role = "practitioner"
    /\ authContext.events = 1
    /\ \A c \in AuthSlots : calls[c].pc = "idle"

\* ============================================================== claims C13, C14
\* C13 as stated: whenever DashboardRedirect navigates, the destination is
\* /practitioner/dashboard if the stored User profile of the signed-in user
\* has role 'practitioner', and /client/dashboard otherwise.
C13_AsStated ==
    [][(nav' # nav /\ nav' # Absent /\ nav'.by = "DashboardRedirect") =>
            nav'.url = IF /\ HasRole(users[authContext.user])
                          /\ users[authContext.user].role = "practitioner"
                       THEN "/practitioner/dashboard"
                       ELSE "/client/dashboard"
      ]_vars

\* C14: RequireAuth renders its children exactly when loading is false and a
\* user is set; the only router call it makes is a push to
\* /login?redirect=<encoded redirectTo, else encoded current path>, made when
\* loading is false and there is no user, in which case no children are
\* rendered; a run of its effect that does not navigate happened while loading
\* or with a user.
C14_RequireAuthGate ==
    [][LET expected ==
            IF page.redirectTo = <<ClientDashboardPath>>
            THEN "/login?redirect=%2Fclient%2Fdashboard"
            ELSE IF page.path = DashboardPath THEN "/login?redirect=%2Fdashboard"
            ELSE IF page.path = ClientDashboardPath
            THEN "/login?redirect=%2Fclient%2Fdashboard"
            ELSE "/login?redirect=%2Fpractitioner%2Fdashboard"
       IN
       /\ RequireAuthView(authContext) = "children"
            <=> (~authContext.loading /\ authContext.user # Null)
       /\ (nav' # nav /\ nav' # Absent /\ nav'.by = "RequireAuth") =>
            /\ ~authContext.loading
            /\ authContext.user = Null
            /\ RequireAuthView(authContext) = "redirecting"
            /\ nav'.method = "push"
            /\ nav'.url = expected
       /\ (page.path \in GatedPaths /\ page'.gate # page.gate /\ page'.gate # Absent) =>
            /\ authContext.loading \/ authContext.user # Null
            /\ nav' = nav
      ]_vars

C14_Witness ==
    /\ nav # Absent
    /\ nav.by = "RequireAuth"
    /\ nav.url = "/login?redirect=%2Fclient%2Fdashboard"
    /\ page.path = LoginPath
    /\ authContext.user = Null
    /\ authContext.events = 2

\* ==================================================================== claim C15
GoogleToasts(n, kind) ==
    {i \in DOMAIN toasts : toasts[i][1] = n /\ toasts[i][2] = kind}

\* C15: the step that takes a rejected signInWithPopup ends with loading
\* false and performs no navigation; when the code is popup-closed-by-user it
\* adds no toast and leaves the stored error null; for every other failure it
\* stores the mapped message as error and appends exactly one error toast with
\* that same message (the fixed text for popup-blocked, network-request-failed
\* and account-exists-with-different-credential, otherwise the error's own
\* message, or the default text when it has none).
C15_GooglePopupClosedIsNoError ==
    [][(useSignInWithGoogle.pc = "signInWithPopup" /\
        useSignInWithGoogle'.pc = "done" /\
        useSignInWithGoogle'.caught # Absent) =>
            LET err == useSignInWithGoogle'.caught
                expected ==
                    IF err.code = "auth/popup-blocked"
                    THEN "Popup was blocked. Please allow popups for this site."
                    ELSE IF err.code = "auth/network-request-failed"
                    THEN "Network error. Please check your connection."
                    ELSE IF err.code = "auth/account-exists-with-different-credential"
                    THEN "An account already exists with this email. Please sign in with your email and password."
                    ELSE IF err.message # Null THEN err.message
                    ELSE "Failed to sign in with Google. Please try again."
            IN
            /\ useSignInWithGoogle'.loading = FALSE
            /\ pushes' = pushes
            /\ IF err.code = "auth/popup-closed-by-user"
               THEN /\ toasts' = toasts
                    /\ useSignInWithGoogle'.error = Null
               ELSE /\ useSignInWithGoogle'.error = expected
                    /\ toasts' = Append(toasts, <<useSignInWithGoogle.n, "error", expected>>)
      ]_vars

\* Both cases in one behaviour: a closed popup first, a blocked popup second.
C15_Witness ==
    /\ useSignInWithGoogle.pc = "done"
    /\ useSignInWithGoogle.n = 2
    /\ useSignInWithGoogle.caught = AuthError("auth/popup-blocked")
    /\ GoogleToasts(1, "error") = {}
    /\ GoogleToasts(1, "success") = {}
    /\ GoogleToasts(2, "error") # {}

\* ==================================================================== claim C16
PushesOf(log, n) == {i \in DOMAIN log : log[i][1] = n}

Awaiting(hook) == hook.pc \notin {"idle", "done"}

C18_AsStated ==
    [][\A a \in ApptIds :
        (appointments[a] = Absent /\ appointments'[a] # Absent) =>
            /\ practitioners[appointments'[a].practitionerId] # Absent
            /\ practitioners[appointments'[a].practitionerId].isActive
      ]_vars

\* ==================================================================== claim C19
\* C19 as stated: the background step of a Google sign-in writes a User
\* document only where none exists, and what it writes has role 'client'; a
\* User document that exists is never changed by it.
C19_AsStated ==
    [][\A u \in Uids :
        users'[u] # users[u] =>
            /\ users[u] = Absent
            /\ users'[u].role = "client"
      ]_vars

\* ==================================================================== claim C20
\* C20 as stated: a User document that has a role keeps that role in every
\* step of updateUser, the AuthProvider's legacy backfill, sign-up and Google
\* sign-in.
C20_AsStated ==
    [][\A u \in Uids :
        HasRole(users[u]) => (HasRole(users'[u]) /\ users'[u].role = users[u].role)
      ]_vars

\* ======================================================================== C21
ActiveListeners(ls) == {i \in DOMAIN ls : ls[i].status = "active"}

\* C21: in useAppointments with realtime = true, every unmount and every change
\* of the options cancels the subscription the effect made before; at most one
\* of the hook's subscriptions is active at any time and none once the
\* component is unmounted; and the appointments of a mounted hook only ever
\* change by a delivery to its current subscription, never by one that was
\* cancelled.
C21_RealtimeCleanup ==
    [][/\ Cardinality(ActiveListeners(listeners')) <= 1
       /\ ~useAppointments'.mounted => ActiveListeners(listeners') = {}
       /\ ( /\ useAppointments.listener # 0
            /\ useAppointments'.listener # useAppointments.listener )
          => listeners'[useAppointments.listener].status = "closed"
       /\ \A i \in DOMAIN listeners :
            listeners'[i].seen # listeners[i].seen
                => /\ listeners[i].status = "active"
                   /\ useAppointments.listener = i
       /\ ( /\ useAppointments.mounted
            /\ useAppointments'.appointments # useAppointments.appointments )
            => /\ useAppointments.listener \in ActiveListeners(listeners)
               /\ useAppointments'.listener = useAppointments.listener
      ]_vars

\* The options changed after the first subscription had delivered: it is
\* cancelled, and the second one has delivered rows to the hook.
C21_Witness ==
    /\ Len(listeners) = 2
    /\ listeners[1].status = "closed"
    /\ listeners[1].seen # <<>>
    /\ listeners[2].status = "active"
    /\ listeners[2].seen # <<>>
    /\ useAppointments.listener = 2
    /\ useAppointments.appointments # <<>>

\* ======================================================================== C22
\* The rows are strictly inside the range the options give.
StrictlyInRange(rows, o) ==
    \A i \in DOMAIN rows :
        /\ HasNum(o, "startAfter") => rows[i].startTime > o.startAfter
        /\ HasNum(o, "startBefore") => rows[i].startTime < o.startBefore

\* C22 as stated: what listAppointments resolves with, and what a subscription
\* delivers, under startAfter = T holds only appointments starting after T and
\* under startBefore = T only appointments starting before T; an appointment
\* starting exactly at T is left out.
C22_AsStated ==
    /\ At(1, "listAppointments", "resolved")
        => StrictlyInRange(calls[1].rows, calls[1].input)
    /\ \A i \in DOMAIN listeners :
        listeners[i].seen # <<>>
            => StrictlyInRange(mapDocs(listeners[i].seen[1]), listeners[i].options)

\* ======================================================================== C23
\* C23 as stated: in every state of the AuthProvider, user = null implies
\* role = null; a role lookup that answers after the sign-out event sets no role.
C23_AsStated == authContext.user = Null => authContext.role = Null

\* ======================================================================== C24
\* The role of the stored profile of uid, if it has one.
StoredRoles(uid) == IF HasRole(users[uid]) THEN {users[uid].role} ELSE {}

\* C24 as stated: while a user is signed in, the published role is the default
\* 'client' or the role stored in that user's profile; the answer to an earlier
\* user's lookup is not published.
C24_AsStated ==
    authContext.user # Null
        => authContext.role \in {defaultRole} \cup StoredRoles(authContext.user)

\* ======================================================================== C25
CreateOps == {"createUserProfile", "createPractitionerProfile"}

\* C25 as stated: of two concurrent createUserProfile (or
\* createPractitionerProfile) calls for one UID at most one resolves, and no
\* step of either call replaces a profile that is already stored.
C25_AsStated ==
    [][/\ \A op \in CreateOps :
            ~( /\ At(1, op, "resolved")' /\ At(2, op, "resolved")'
               /\ calls'[1].key = calls'[2].key )
       /\ \A u \in Uids :
            /\ users[u] # Absent => users'[u] = users[u]
            /\ practitioners[u] # Absent => practitioners'[u] = practitioners[u]
      ]_vars

\* ======================================================================== C26
\* The document has the actor and the time of a cancellation (a document
\* created by createAppointment has neither field; a stored cancelledAt is a
\* timestamp).
HasCancellation(d) ==
    /\ "cancelledBy" \in DOMAIN d /\ d.cancelledBy # Null
    /\ "cancelledAt" \in DOMAIN d

\* C26 as stated: whatever createAppointment, updateAppointment and
\* cancelAppointment calls ran, a stored appointment has cancelledBy and
\* cancelledAt set exactly when its status is 'cancelled'.
C26_AsStated ==
    \A a \in ApptIds :
        appointments[a] # Absent
            => (HasCancellation(appointments[a])
                    <=> appointments[a].status = "cancelled")

\* ======================================================================== C27
\* C27 as stated: whatever sign-ups and Google sign-ins ran and whichever of
\* their steps failed, a Practitioner document exists for a UID only if a User
\* document with role 'practitioner' exists for it.
C27_AsStated ==
    \A u \in Uids :
        practitioners[u] # Absent
            => (HasRole(users[u]) /\ users[u].role = "practitioner")

\* ======================================================================== C28
\* C28 as stated: on one store state, what a subscription with given options
\* delivers to its callback is, in content and order, what listAppointments
\* resolves with for the same options.
C28_AsStated ==
    \A i \in DOMAIN listeners :
        ( /\ listeners[i].seen # <<>>
          /\ At(1, "listAppointments", "resolved")
          /\ calls[1].input = listeners[i].options )
            => mapDocs(listeners[i].seen[1]) = calls[1].rows

\* ======================================================================== C29
\* The returned document carries the input: each field the input names has the
\* input's value, a serverTimestamp() in the input having become a time.
CarriesInput(ret, input) ==
    \A f \in DOMAIN input :
        /\ f \in DOMAIN ret
        /\ IF f \in TimestampFields /\ input[f] = ServerTS
           THEN ret[f] # ServerTS
           ELSE ret[f] = input[f]

\* C29 as stated: what updateAppointment(id, input) and cancelAppointment
\* resolve with has every field of the input at the input's value, whatever
\* other writers of the appointment do meanwhile.
C29_AsStated ==
    \A c \in DOMAIN calls :
        At(c, "updateAppointment", "resolved")
            => CarriesInput(calls[c].ret, calls[c].input)

\* C29: the write of updateAppointment(id, input) (and of cancelAppointment)
\* stores every field of the input at the input's value, and the call resolves
\* with the stored document as it is when the call reads it back: the input's
\* values unless another writer changed the appointment in between.
C29_ReturnsStoredDocument ==
    [][\A c \in DOMAIN calls :
        LET id == calls[c].key IN
        /\ (At(c, "updateAppointment", "updateDoc") /\ calls'[c].pc = "refetch")
            => CarriesInput(appointments'[id], calls[c].input)
        /\ (At(c, "updateAppointment", "refetch") /\ calls'[c].pc = "resolved")
            => /\ calls'[c].ret = WithId(id, appointments[id])
               /\ (\A f \in DOMAIN calls[c].input : f \in DOMAIN calls'[c].ret)
      ]_vars

\* A call resolved with a document another writer had changed after the
\* call's own write: a field of the input has the other writer's value.
C29_Witness ==
    \E c \in DOMAIN calls :
        /\ At(c, "updateAppointment", "resolved")
        /\ calls[c].ret = WithId(calls[c].key, appointments[calls[c].key])
        /\ ~CarriesInput(calls[c].ret, calls[c].input)

\* ======================================================================== C30
\* What listAppointments(o) resolves with on the given store.
Listed(store, o) ==
    RunQuery(store, o,
             IF "startAfterDocId" \in DOMAIN o /\ store[o.startAfterDocId] # Absent
             THEN WithId(o.startAfterDocId, store[o.startAfterDocId])
             ELSE Absent)

\* C30 as stated: once every fetch of the one-shot hook has settled without an
\* error, the data the hook holds is the result for its current options; the
\* late response to an earlier request has not replaced it.
C30_AsStated ==
    ( /\ useAppointments.mounted
      /\ ~useAppointments.realtime
      /\ ~useAppointments.loading
      /\ useAppointments.error = Null
      /\ \A c \in ListSlots : calls[c].pc = "idle" )
        => useAppointments.appointments
                = Listed(appointments, useAppointments.options)

================================================================
